---- MODULE Spec2Model ----
(***************************************************************************)
(* Site-settings pipeline of SK-Web-V3: the loader of src/lib/settings.ts  *)
(* (TTL cache, pending-request slot, row parser), the context provider of  *)
(* src/lib/context/SiteSettingsContext.tsx that publishes the bundle, and  *)
(* the consumers that write it into the document                           *)
(* (src/components/Analytics.tsx, src/components/SEOInjector.tsx), and the *)
(* build-time script scripts/inject-seo.js that rewrites index.html.       *)
(*                                                                         *)
(* JavaScript values are represented as follows.                           *)
(*   - a nullable scalar (string | null | undefined, number | undefined)   *)
(*     is a sequence of length at most one: <<>> is null/undefined and     *)
(*     <<v>> is the value v;                                               *)
(*   - a text that JSON.parse reads is a sequence of tokens;               *)
(*   - an object is a function from its property names to their values;   *)
(*   - the JSON value null inside an object is the atom JsNull.            *)
(***************************************************************************)
EXTENDS Integers, Sequences, FiniteSets, TLC

----------------------------------------------------------------------------
(* Bounds of the model.                                                    *)

MaxRows == 2        \* rows in one parser input
MaxCalls == 3       \* calls to fetchAllSiteSettings (direct and by the provider)
MaxClears == 1      \* calls to clearSettingsCache (direct and by refreshSettings)
MaxTicks == 1       \* clock advances
MaxDomSteps == 7    \* steps of the document model
MaxLoads == 2       \* loadSettings calls of the provider in the document model
MaxLiveCalls == 2   \* calls to fetchAllSiteSettings in the termination check
MaxLiveClears == 1  \* calls to clearSettingsCache in the termination check

----------------------------------------------------------------------------
(* Nullable scalars.                                                       *)

None == <<>>
Some(v) == <<v>>

\* JavaScript truthiness of a nullable string: null, undefined and "" are falsy.
TruthyStr(o) == o # None /\ o[1] # ""

\* JavaScript truthiness of a nullable number: undefined and 0 are falsy.
TruthyNum(o) == o # None /\ o[1] # 0

\* a || b on nullable strings, where b is a string.
OrElseStr(o, b) == IF TruthyStr(o) THEN o[1] ELSE b

\* a || b on nullable numbers, where b is a number.
OrElseNum(o, b) == IF TruthyNum(o) THEN o[1] ELSE b

\* The JSON value null as a property value.
JsNull == "<null>"

----------------------------------------------------------------------------
(* Default values, settings.ts:88-141.                                     *)

DEFAULT_SEO ==
  [ meta_title |-> "Supermal Karawaci",
    meta_description |-> "Shopping Mall in Tangerang",
    meta_keywords |-> "",
    og_title |-> "",
    og_description |-> "",
    og_image_url |-> "",
    og_type |-> "website",
    twitter_card |-> "summary_large_image",
    twitter_site |-> "",
    twitter_creator |-> "",
    canonical_url |-> "https://supermalkarawaci.co.id",
    robots |-> "index, follow",
    google_site_verification |-> "",
    bing_site_verification |-> "" ]

DEFAULT_ANALYTICS ==
  [ google_analytics_id |-> "",
    google_tag_manager_id |-> "",
    meta_pixel_id |-> "",
    tiktok_pixel_id |-> "",
    hotjar_id |-> "" ]

DEFAULT_GENERAL ==
  [ site_name |-> "Supermal Karawaci",
    site_tagline |-> "",
    site_description |-> "",
    logo_url |-> "",
    logo_dark_url |-> "",
    favicon_url |-> "",
    default_language |-> "id",
    timezone |-> "Asia/Jakarta" ]

DEFAULT_CONTACT ==
  [ address |-> "",
    phone |-> "",
    email |-> "",
    whatsapp |-> "",
    google_maps_embed |-> "",
    latitude |-> "",
    longitude |-> "" ]

DEFAULT_SOCIAL ==
  [ facebook |-> "",
    instagram |-> "",
    twitter |-> "",
    youtube |-> "",
    tiktok |-> "",
    linkedin |-> "" ]

\* The five reserved keys, the cases of the switch at settings.ts:244-259,
\* each with the bundle field it fills.
ReservedKeys ==
  {"settings_seo", "settings_analytics", "settings_general",
   "settings_contact", "settings_social"}

GroupOf(key) ==
  CASE key = "settings_seo" -> "seo"
    [] key = "settings_analytics" -> "analytics"
    [] key = "settings_general" -> "general"
    [] key = "settings_contact" -> "contact"
    [] key = "settings_social" -> "social"

DefaultOf(group) ==
  CASE group = "seo" -> DEFAULT_SEO
    [] group = "analytics" -> DEFAULT_ANALYTICS
    [] group = "general" -> DEFAULT_GENERAL
    [] group = "contact" -> DEFAULT_CONTACT
    [] group = "social" -> DEFAULT_SOCIAL

Groups == {"seo", "analytics", "general", "contact", "social"}

InjectionPoints == {"head_start", "head_end", "body_start", "body_end"}

----------------------------------------------------------------------------
(* JSON.parse on token sequences.  The grammar covers what the stored      *)
(* values of the model use: an object of string-or-null members, a string, *)
(* the literal null.  Every other token sequence is a SyntaxError.         *)

LBrace == [t |-> "punct", v |-> "{"]
RBrace == [t |-> "punct", v |-> "}"]
Colon == [t |-> "punct", v |-> ":"]
Comma == [t |-> "punct", v |-> ","]
NullLit == [t |-> "lit", v |-> "null"]
Str(s) == [t |-> "str", v |-> s]
\* Characters that are no JSON token at all (the payload of a script row).
Raw(s) == [t |-> "raw", v |-> s]

IsScalarTok(tok) == tok.t = "str" \/ tok = NullLit

ScalarOf(tok) == IF tok = NullLit THEN JsNull ELSE tok.v

SyntaxError == [ok |-> FALSE, kind |-> "error", obj |-> <<>>]

\* obj with property k set to v (a later duplicate member wins, as in JSON.parse).
WithProp(obj, k, v) ==
  [p \in DOMAIN obj \cup {k} |-> IF p = k THEN v ELSE obj[p]]

\* Members of an object from token i on, acc being the members read so far.
RECURSIVE ParseMembers(_, _, _)
ParseMembers(toks, i, acc) ==
  IF i + 3 > Len(toks) THEN SyntaxError
  ELSE IF ~(toks[i].t = "str" /\ toks[i + 1] = Colon /\ IsScalarTok(toks[i + 2]))
    THEN SyntaxError
  ELSE LET obj == WithProp(acc, toks[i].v, ScalarOf(toks[i + 2])) IN
    IF toks[i + 3] = RBrace
      THEN IF i + 3 = Len(toks)
             THEN [ok |-> TRUE, kind |-> "object", obj |-> obj]
             ELSE SyntaxError
    ELSE IF toks[i + 3] = Comma THEN ParseMembers(toks, i + 4, obj)
    ELSE SyntaxError

\* A one-character string as an object has the single property "0".
StringAsObject(s) == IF s = "" THEN <<>> ELSE [p \in {"0"} |-> s]

JSONParse(toks) ==
  IF Len(toks) = 0 THEN SyntaxError
  ELSE IF Len(toks) = 1
    THEN IF toks[1] = NullLit THEN [ok |-> TRUE, kind |-> "null", obj |-> <<>>]
         ELSE IF toks[1].t = "str"
           THEN [ok |-> TRUE, kind |-> "string", obj |-> StringAsObject(toks[1].v)]
         ELSE SyntaxError
  ELSE IF toks[1] # LBrace THEN SyntaxError
  ELSE IF Len(toks) = 2
    THEN IF toks[2] = RBrace
           THEN [ok |-> TRUE, kind |-> "object", obj |-> <<>>]
           ELSE SyntaxError
  ELSE ParseMembers(toks, 2, <<>>)

\* { ...a, ...b }: the own enumerable properties of a, overridden by b's.
Spread(a, b) ==
  [p \in DOMAIN a \cup DOMAIN b |-> IF p \in DOMAIN b THEN b[p] ELSE a[p]]

\* Mutant of parseJsonValue: returns the parsed object without the defaults.
parseJsonValue_NoMerge(value, defaults) ==
  IF ~(value # None /\ value[1] # <<>>) THEN defaults
  ELSE LET parsed == JSONParse(value[1]) IN
    IF parsed.ok THEN parsed.obj ELSE defaults

\* Mutant of parseJsonValue: spreads the defaults over the parsed object.
parseJsonValue_DefaultsWin(value, defaults) ==
  IF ~(value # None /\ value[1] # <<>>) THEN defaults
  ELSE LET parsed == JSONParse(value[1]) IN
    IF parsed.ok THEN Spread(parsed.obj, defaults) ELSE defaults

\* Mutant of parseJsonValue: the catch clause returns an empty object.
parseJsonValue_EmptyOnError(value, defaults) ==
  IF ~(value # None /\ value[1] # <<>>) THEN defaults
  ELSE LET parsed == JSONParse(value[1]) IN
    IF parsed.ok THEN Spread(defaults, parsed.obj) ELSE <<>>

\* parseJsonValue(value, defaults), settings.ts:153-161.
parseJsonValue(value, defaults) ==
  IF ~(value # None /\ value[1] # <<>>) THEN defaults
  ELSE LET parsed == JSONParse(value[1]) IN
    IF parsed.ok THEN Spread(defaults, parsed.obj) ELSE defaults

----------------------------------------------------------------------------
(* The row parser.                                                         *)

\* getDefaultSettings(), settings.ts:298-312; also the initial value of
\* `settings` in parseSettingsFromData, settings.ts:226-238.
getDefaultSettings ==
  [ seo |-> DEFAULT_SEO,
    analytics |-> DEFAULT_ANALYTICS,
    general |-> DEFAULT_GENERAL,
    contact |-> DEFAULT_CONTACT,
    social |-> DEFAULT_SOCIAL,
    scripts |-> [ head_start |-> <<>>, head_end |-> <<>>,
                  body_start |-> <<>>, body_end |-> <<>> ] ]

\* key.startsWith('settings_'): the keys of the model that begin with the
\* prefix are the reserved ones and "settings_custom".
StartsWithSettings(key) == key \in ReservedKeys \cup {"settings_custom"}

\* The CustomScript built at settings.ts:263-271.
MakeScript(row) ==
  [ key |-> row.key[1],
    value |-> row.value[1],
    id |-> OrElseStr(row.id, row.key[1]),
    display_name |-> OrElseStr(row.display_name, row.key[1]),
    setting_type |-> row.setting_type[1],
    injection_point |-> row.injection_point[1],
    sort_order |-> OrElseNum(row.sort_order, 0) ]

\* The guard of settings.ts:262.
IsCustomScriptRow(row) ==
  /\ ~StartsWithSettings(row.key[1])
  /\ TruthyStr(row.injection_point)
  /\ TruthyStr(row.setting_type)
  /\ row.value # None /\ row.value[1] # <<>>

\* A row on which the loop body throws: key is null, so the switch reaches
\* its default case and key.startsWith raises a TypeError (settings.ts:262).
RowThrows(row) == row.key = None

\* Mutant of ProcessRow: a script is inserted by sort rank, after the entries
\* of its sequence whose sort_order is not larger.
ProcessRow_Sorted(settings, row) ==
  IF row.key[1] \in ReservedKeys
    THEN [settings EXCEPT ![GroupOf(row.key[1])] =
            parseJsonValue(row.value, DefaultOf(GroupOf(row.key[1])))]
  ELSE IF IsCustomScriptRow(row)
    THEN IF row.injection_point[1] \in InjectionPoints
           THEN LET old == settings.scripts[row.injection_point[1]]
                    e == MakeScript(row)
                    n == Cardinality({ j \in 1..Len(old) : old[j].sort_order <= e.sort_order })
                IN [settings EXCEPT !.scripts[row.injection_point[1]] =
                      SubSeq(old, 1, n) \o <<e>> \o SubSeq(old, n + 1, Len(old))]
           ELSE settings
  ELSE settings

\* Mutant of ProcessRow: a script is put in front of its sequence.
ProcessRow_Prepend(settings, row) ==
  IF row.key[1] \in ReservedKeys
    THEN [settings EXCEPT ![GroupOf(row.key[1])] =
            parseJsonValue(row.value, DefaultOf(GroupOf(row.key[1])))]
  ELSE IF IsCustomScriptRow(row)
    THEN IF row.injection_point[1] \in InjectionPoints
           THEN [settings EXCEPT !.scripts[row.injection_point[1]] =
                   <<MakeScript(row)>> \o @]
           ELSE settings
  ELSE settings

\* Mutant of ProcessRow: the inner switch lacks its break statements, so a
\* script also falls through into the sequences of the later cases.
ProcessRow_Fallthrough(settings, row) ==
  IF row.key[1] \in ReservedKeys
    THEN [settings EXCEPT ![GroupOf(row.key[1])] =
            parseJsonValue(row.value, DefaultOf(GroupOf(row.key[1])))]
  ELSE IF IsCustomScriptRow(row)
    THEN IF row.injection_point[1] \in InjectionPoints
           THEN LET order == <<"head_start", "head_end", "body_start", "body_end">>
                    from == CHOOSE n \in 1..4 : order[n] = row.injection_point[1]
                IN [settings EXCEPT !.scripts =
                      [p \in InjectionPoints |->
                         IF \E n \in from..4 : order[n] = p
                           THEN Append(settings.scripts[p], MakeScript(row))
                           ELSE settings.scripts[p]]]
           ELSE settings
  ELSE settings

\* Mutant of ProcessRow: a reserved row with a missing or empty value is
\* skipped, so the group keeps what an earlier row gave it.
ProcessRow_DropsEmpty(settings, row) ==
  IF row.key[1] \in ReservedKeys
    THEN IF row.value # None /\ row.value[1] # <<>>
           THEN [settings EXCEPT ![GroupOf(row.key[1])] =
                   parseJsonValue(row.value, DefaultOf(GroupOf(row.key[1])))]
           ELSE settings
  ELSE IF IsCustomScriptRow(row)
    THEN IF row.injection_point[1] \in InjectionPoints
           THEN [settings EXCEPT !.scripts[row.injection_point[1]] =
                   Append(@, MakeScript(row))]
           ELSE settings
  ELSE settings

\* One iteration of the loop of settings.ts:240-290.
ProcessRow(settings, row) ==
  IF row.key[1] \in ReservedKeys
    THEN [settings EXCEPT ![GroupOf(row.key[1])] =
            parseJsonValue(row.value, DefaultOf(GroupOf(row.key[1])))]
  ELSE IF IsCustomScriptRow(row)
    THEN IF row.injection_point[1] \in InjectionPoints
           THEN [settings EXCEPT !.scripts[row.injection_point[1]] =
                   Append(@, MakeScript(row))]
           ELSE settings
  ELSE settings

RECURSIVE ParseLoop(_, _, _)
ParseLoop(settings, data, i) ==
  IF i > Len(data) THEN settings
  ELSE ParseLoop(ProcessRow(settings, data[i]), data, i + 1)

\* parseSettingsFromData(data), settings.ts:217-293, for data on which no
\* iteration throws.
parseSettingsFromData(data) == ParseLoop(getDefaultSettings, data, 1)

\* parseSettingsFromData raises an exception: some iteration throws.
ParseThrows(data) == \E i \in 1..Len(data) : RowThrows(data[i])

----------------------------------------------------------------------------
(* Rows the store can return.                                              *)

Row(key, value, setting_type, injection_point, id, display_name, sort_order) ==
  [ key |-> key, value |-> value, id |-> id, display_name |-> display_name,
    setting_type |-> setting_type, injection_point |-> injection_point,
    sort_order |-> sort_order ]

\* Two fields of each group that the stored JSON of the model may define.
SampleFields(group) ==
  CASE group = "seo" -> <<"meta_title", "og_title">>
    [] group = "analytics" -> <<"google_analytics_id", "hotjar_id">>
    [] group = "general" -> <<"site_name", "favicon_url">>
    [] group = "contact" -> <<"phone", "email">>
    [] group = "social" -> <<"facebook", "instagram">>

\* Stored texts that are JSON objects over the sample fields.
ObjectTexts(group) ==
  LET f == SampleFields(group) IN
  { <<LBrace, RBrace>>,
    <<LBrace, Str(f[1]), Colon, Str("X"), RBrace>>,
    <<LBrace, Str(f[1]), Colon, NullLit, RBrace>>,
    <<LBrace, Str(f[1]), Colon, Str("X"), Comma, Str(f[2]), Colon, Str("Y"), RBrace>> }

\* Stored texts that are valid JSON but no object.
NonObjectTexts == { <<NullLit>>, <<Str("X")>> }

\* Stored texts that are not valid JSON.
CorruptTexts(group) ==
  { <<LBrace, Str(SampleFields(group)[1]), Colon>> }

GroupValues(group) ==
  {None, Some(<<>>)} \cup
  { Some(t) : t \in ObjectTexts(group) \cup NonObjectTexts \cup CorruptTexts(group) }

GroupRows ==
  UNION { { Row(Some(k), v, None, None, None, None, None) :
              v \in GroupValues(GroupOf(k)) } : k \in ReservedKeys }

Payload == Some(<<Raw("v")>>)

ScriptRows ==
  { Row(Some("gtm"), Payload, Some("script"), p, None, None, None) :
      p \in {Some(q) : q \in InjectionPoints} \cup {None, Some(""), Some("footer")} }
  \cup
  { Row(Some("gtm"), Payload, None, Some("body_end"), None, None, None),
    Row(Some("gtm"), Some(<<>>), Some("script"), Some("body_end"), None, None, None),
    Row(Some("gtm"), None, Some("script"), Some("body_end"), None, None, None),
    Row(Some("ga"), Payload, Some("custom_html"), Some("body_end"),
        Some("7"), Some("GA"), Some(2)),
    Row(Some("settings_custom"), Payload, Some("script"), Some("body_end"),
        None, None, None),
    Row(None, Payload, Some("script"), Some("body_end"), None, None, None) }

Rows == GroupRows \cup ScriptRows

RECURSIVE SeqsUpTo(_, _)
SeqsUpTo(S, n) ==
  IF n = 0 THEN {<<>>}
  ELSE LET shorter == SeqsUpTo(S, n - 1) IN
       shorter \cup { Append(s, x) : s \in {t \in shorter : Len(t) = n - 1}, x \in S }

RowSeqs == SeqsUpTo(Rows, MaxRows)

----------------------------------------------------------------------------
(* The loader and the provider.                                            *)

\* CACHE_DURATION, settings.ts:144, in milliseconds.
CACHE_DURATION == 5 * 60 * 1000

\* Amounts by which the clock of Date.now() advances in one step.
TickSteps == {CACHE_DURATION - 1, CACHE_DURATION}

\* What the store answers to the single query: rows (or a null `data`), an
\* error result, or an exception raised by the client.
RowsSeo ==
  << Row(Some("settings_seo"),
         Some(<<LBrace, Str("meta_title"), Colon, Str("X"), RBrace>>),
         None, None, None, None, None),
     Row(Some("gtm"), Payload, Some("script"), Some("body_end"), None, None, None) >>

RowsNullKey ==
  << Row(None, Payload, Some("script"), Some("body_end"), None, None, None) >>

Responses ==
  { [kind |-> "data", data |-> Some(RowsSeo)],
    [kind |-> "data", data |-> Some(RowsNullKey)],
    [kind |-> "data", data |-> None],
    [kind |-> "error", data |-> None],
    [kind |-> "throw", data |-> None] }

VARIABLES
  settingsCache,    \* settings.ts:145: None or Some([data, timestamp])
  pendingRequest,   \* settings.ts:148: None or Some(index into requests)
  requests,         \* the promises created at settings.ts:179, in creation order
  ncalls,           \* number of calls of fetchAllSiteSettings so far
  lastCall,         \* None, or Some(what the last call returned)
  now,              \* Date.now()
  settings,         \* provider state, SiteSettingsContext.tsx useState(null)
  isLoading,        \* provider state, useState(true)
  error,            \* provider state, useState(null)
  mounted,          \* the provider's mount effect has run
  clears,           \* number of clearSettingsCache calls so far
  ticks,            \* number of clock advances so far
  clearedSinceCall, \* clearSettingsCache ran and no call was made since
  lastSettled,      \* None, or Some([req, outcome]) of the request settled last,
                    \* when no call was made since
  continuations,    \* the loadSettings calls suspended at their await, oldest
                    \* first: what each of them awaits
  rows,             \* input of the row parser
  parsed,           \* None, or Some(result of parseSettingsFromData(rows))
  threw             \* parseSettingsFromData(rows) raised an exception

loaderVars ==
  << settingsCache, pendingRequest, requests, ncalls, lastCall, now, settings, isLoading,
     error, mounted, clears, ticks, clearedSinceCall, lastSettled, continuations >>

parserVars == << rows, parsed, threw >>

VARIABLES
  head,             \* children of document.head created by the consumers, in order
  body,             \* children of document.body created by the consumers, in order
  consumers,        \* per consumer instance: mounted, refs and registered cleanups
  domSteps,         \* number of steps of the document model so far
  treeOrder,        \* the consumer instances in the order of the component tree
  fbq,              \* window.fbq is defined (set by the Meta Pixel snippet)
  context,          \* the context value of the provider's last render
  pathname,         \* location.pathname seen by an SEOInjector render
  pageMeta,         \* the pageMeta prop of that render
  rendered,         \* None, or Some(the tags that render hands to Helmet)
  build             \* one run of scripts/inject-seo.js: position, process.env,
                    \* files, answer of the query, exit status, index.html

domVars == << head, body, consumers, domSteps, treeOrder, fbq, context >>

helmetVars == << pathname, pageMeta, rendered >>

buildVars == << build >>

viewVars == << domVars, helmetVars, buildVars >>

vars == << loaderVars, parserVars, viewVars >>

\* The consumer instances of the model: two Analytics components
\* (Analytics.tsx) and two SEOInjector components (SEOInjector.tsx).
Instances == {"A1", "A2", "S1", "S2"}

\* React runs the cleanups and the effects of a commit in the order of the
\* component tree, which is the order in which the application renders the
\* instances.  The trees of the model: one for every way of interleaving
\* the two Analytics with the two SEOInjector instances.
TreeOrders ==
  { <<"A1", "A2", "S1", "S2">>, <<"S1", "S2", "A1", "A2">>,
    <<"A1", "S1", "A2", "S2">>, <<"S1", "A1", "S2", "A2">>,
    <<"A1", "S1", "S2", "A2">>, <<"S1", "A1", "A2", "S2">> }

KindOf(i) == IF i \in {"A1", "A2"} THEN "analytics" ELSE "seo"

\* A consumer instance that is not mounted, or has just been mounted:
\* hasInjectedRef = false (Analytics.tsx:23), injectedScriptsRef = [] /
\* injectedElementsRef = [] (Analytics.tsx:22, SEOInjector.tsx:250), no
\* cleanup registered, no headElements closure (SEOInjector.tsx:333).
FreshConsumer ==
  [ mounted |-> FALSE, hasInjected |-> FALSE, tracked |-> <<>>, cleanup |-> FALSE,
    headElements |-> <<>>, headCleanup |-> FALSE ]

\* SEOInjector rendered without the pageMeta prop (SEOInjector.tsx:223-231):
\* every field is undefined.
NoPageMeta ==
  [ title |-> None, description |-> None, ogImage |-> None, canonical |-> None,
    keywords |-> None ]

\* The context value of the provider's first render
\* (SiteSettingsContext.tsx:563-565): no bundle, loading.  `object` names
\* the promise whose object the bundle is, 0 for null.
FirstContext == [settings |-> None, isLoading |-> TRUE, object |-> 0]

\* The build-time script is not running.
NoEnvVars == [url |-> None, key |-> None]

NoFile == [exists |-> FALSE, readable |-> FALSE, vars |-> NoEnvVars]

BuildIdle ==
  [ pc |-> "idle", env |-> NoEnvVars, envLocalFile |-> NoFile, envFile |-> NoFile,
    clientThrows |-> FALSE, index |-> "ok", shell |-> "none", resp |-> None,
    exit |-> None, html |-> <<>>, written |-> FALSE ]

\* No consumer is mounted, the document holds none of their nodes, nothing
\* was rendered, the build-time script is not running.
ViewIdle ==
  /\ head = <<>>
  /\ body = <<>>
  /\ consumers = [i \in Instances |-> FreshConsumer]
  /\ domSteps = 0
  /\ treeOrder = <<"A1", "A2", "S1", "S2">>
  /\ fbq = FALSE
  /\ context = FirstContext
  /\ pathname = "/"
  /\ pageMeta = NoPageMeta
  /\ rendered = None
  /\ build = BuildIdle

\* The condition of settings.ts:169.
CacheValid(cache, t) ==
  cache # None /\ t - cache[1].timestamp < CACHE_DURATION

\* Mutant of CompleteRequest: an error result of the query rejects the
\* promise instead of returning the defaults.
CompleteRequest_ErrorRejects(resp, cache, t) ==
  IF resp.kind = "throw"
    THEN [state |-> "fulfilled", outcome |-> "throw",
          value |-> Some(getDefaultSettings), cache |-> cache]
  ELSE IF resp.kind = "error"
    THEN [state |-> "rejected", outcome |-> "error", value |-> None, cache |-> cache]
  ELSE LET data == IF resp.data = None THEN <<>> ELSE resp.data[1] IN
    IF ParseThrows(data)
      THEN [state |-> "fulfilled", outcome |-> "parse_throw",
            value |-> Some(getDefaultSettings), cache |-> cache]
      ELSE LET s == parseSettingsFromData(data) IN
           [state |-> "fulfilled", outcome |-> "ok", value |-> Some(s),
            cache |-> Some([data |-> s, timestamp |-> t])]

\* Mutant of CompleteRequest: no catch clause, an exception of the client
\* rejects the promise.
CompleteRequest_NoCatch(resp, cache, t) ==
  IF resp.kind = "throw"
    THEN [state |-> "rejected", outcome |-> "throw", value |-> None, cache |-> cache]
  ELSE IF resp.kind = "error"
    THEN [state |-> "fulfilled", outcome |-> "error",
          value |-> Some(getDefaultSettings), cache |-> cache]
  ELSE LET data == IF resp.data = None THEN <<>> ELSE resp.data[1] IN
    IF ParseThrows(data)
      THEN [state |-> "rejected", outcome |-> "parse_throw", value |-> None,
            cache |-> cache]
      ELSE LET s == parseSettingsFromData(data) IN
           [state |-> "fulfilled", outcome |-> "ok", value |-> Some(s),
            cache |-> Some([data |-> s, timestamp |-> t])]

\* The body of the promise of settings.ts:179-209 from the answer of the
\* query on: how the promise settles, with what, and the cache slot it leaves.
CompleteRequest(resp, cache, t) ==
  IF resp.kind = "throw"
    THEN [state |-> "fulfilled", outcome |-> "throw",
          value |-> Some(getDefaultSettings), cache |-> cache]
  ELSE IF resp.kind = "error"
    THEN [state |-> "fulfilled", outcome |-> "error",
          value |-> Some(getDefaultSettings), cache |-> cache]
  ELSE LET data == IF resp.data = None THEN <<>> ELSE resp.data[1] IN
    IF ParseThrows(data)
      THEN [state |-> "fulfilled", outcome |-> "parse_throw",
            value |-> Some(getDefaultSettings), cache |-> cache]
      ELSE LET s == parseSettingsFromData(data) IN
           [state |-> "fulfilled", outcome |-> "ok", value |-> Some(s),
            cache |-> Some([data |-> s, timestamp |-> t])]

\* The pending slot after the `finally` of settings.ts:206-208 of request r.
PendingAfterFinally(pending, r) == None

\* What a call returned: the cached data, or the promise of request req.
CallRec(src, req, value) == [src |-> src, req |-> req, value |-> value]

\* A promise created at settings.ts:179: its state and value, the number of
\* clearSettingsCache calls that preceded its creation, and whether some
\* loadSettings call of the provider awaits it.  Every promise resolves to
\* an object of its own (settings.ts:190, 194, 205), so an object is known
\* by its promise: cached tells that settingsCache.data is the object of
\* this promise, applied that the state `settings` of the provider is.
NewRequest(by, epoch) ==
  [state |-> "inflight", value |-> None, epoch |-> epoch, provider |-> (by = "provider"),
   cached |-> FALSE, applied |-> FALSE]

\* The client raises while the query is built, before the first await of
\* the promise body (settings.ts:182-186).
ClientRaises == [kind |-> "throw", data |-> None]

\* The call of the async function of settings.ts:179-209.  When the query
\* is sent the body stops at its await and the promise is in flight.  When
\* the client raises before that await, the catch and the finally
\* (203-208) run inside the call: the promise is settled when it is
\* returned and no query was sent.
StartRequest(by, epoch, raises, cache, t) ==
  IF raises
    THEN LET res == CompleteRequest(ClientRaises, cache, t) IN
         [NewRequest(by, epoch) EXCEPT !.state = res.state, !.value = res.value]
    ELSE NewRequest(by, epoch)

\* fetchAllSiteSettings(), settings.ts:167-212, up to its return; `raises`
\* tells whether the client raises when a query is built.  The assignment
\* of 179 stores the promise after the body has run to its first await, so
\* the `finally` of a body that ended inside the call empties the slot
\* before the promise is put into it.
FetchAll(by, raises) ==
  /\ ncalls < MaxCalls
  /\ ncalls' = ncalls + 1
  /\ clearedSinceCall' = FALSE
  /\ IF CacheValid(settingsCache, now)
       THEN /\ lastCall' = Some(CallRec("cache", 0, Some(settingsCache[1].data)))
            /\ lastSettled' = None
            /\ UNCHANGED << settingsCache, pendingRequest, requests >>
     ELSE IF pendingRequest # None
       THEN /\ lastCall' = Some(CallRec("request", pendingRequest[1], None))
            /\ lastSettled' = None
            /\ requests' = [requests EXCEPT ![pendingRequest[1]].provider =
                               @ \/ (by = "provider")]
            /\ UNCHANGED << settingsCache, pendingRequest >>
     ELSE /\ requests' = Append(requests,
                                StartRequest(by, clears, raises, settingsCache, now))
          /\ pendingRequest' = Some(Len(requests) + 1)
          /\ lastCall' = Some(CallRec("request", Len(requests) + 1, None))
          /\ lastSettled' = IF raises
                              THEN Some([req |-> Len(requests) + 1, outcome |-> "throw"])
                              ELSE None
          /\ UNCHANGED settingsCache

----------------------------------------------------------------------------
(* The row parser on its own: any input of at most MaxRows rows.           *)

ParseRows ==
  /\ parsed = None /\ ~threw
  /\ IF ParseThrows(rows)
       THEN threw' = TRUE /\ UNCHANGED parsed
       ELSE parsed' = Some(parseSettingsFromData(rows)) /\ UNCHANGED threw
  /\ UNCHANGED << rows, loaderVars, viewVars >>

InitParser ==
  /\ rows \in RowSeqs
  /\ parsed = None
  /\ threw = FALSE
  /\ settingsCache = None
  /\ pendingRequest = None
  /\ requests = <<>>
  /\ ncalls = 0
  /\ lastCall = None
  /\ now = 0
  /\ settings = None
  /\ isLoading = TRUE
  /\ error = None
  /\ mounted = FALSE
  /\ clears = 0
  /\ ticks = 0
  /\ clearedSinceCall = FALSE
  /\ lastSettled = None
  /\ continuations = <<>>
  /\ ViewIdle

NextParser == ParseRows

SpecParser == InitParser /\ [][NextParser]_vars

----------------------------------------------------------------------------
(* The document and the injection consumers (Analytics.tsx and             *)
(* SEOInjector.tsx).  The document is the pair of the child lists of head   *)
(* and body, restricted to the nodes the consumers create.  The context     *)
(* value the consumers read is (settings, isLoading) of the provider as of  *)
(* its last render.  A render with a changed context value commits as React *)
(* does: the cleanups of all mounted consumers run first, then their        *)
(* effects.                                                                 *)

\* A node created by a consumer.  attr and key are the attribute by which
\* the code looks the node up (an id, data-seo-setting, data-head-setting;
\* "none" for a text node); `by` is the creating instance and idx the
\* position of the node in the parsed value of its script.
Node(tag, attr, key, by, idx) ==
  [tag |-> tag, attr |-> attr, key |-> key, by |-> by, idx |-> idx]

Range(seq) == { seq[j] : j \in 1..Len(seq) }

\* document.getElementById(key) for attr = "id", and
\* document.querySelector('[attr="key"]') otherwise, find a node.
Finds(h, b, attr, key) ==
  \E n \in Range(h) \cup Range(b) : n.attr = attr /\ n.key = key

\* el.remove() for every el of nodes; removing a detached node changes nothing.
RemoveAll(seq, nodes) == SelectSeq(seq, LAMBDA n : n \notin Range(nodes))

\* Truthiness of a group field: a non-empty string.
JsTruthy(v) == v # "" /\ v # JsNull

\* The element an inline snippet creates for the library of its provider:
\* <script async src=...>.  It carries no id; idx tells the elements of one
\* library apart.
LoaderScript(st, src, by) ==
  LET same == { n \in Range(st.head) \cup Range(st.body) :
                  n.attr = "src" /\ n.key = src }
      last == IF same = {} THEN 0
              ELSE CHOOSE k \in { n.idx : n \in same } :
                     \A n \in same : n.idx <= k
  IN Node("script", "src", src, by, last + 1)

\* f = document.getElementsByTagName('script')[0];
\* f.parentNode.insertBefore(j, f) (Analytics.tsx:87-89, 121-122, 152): the
\* snippet runs while its own element is in head, so the first script of
\* the document is a child of head.
InsertBeforeFirstScript(h, j) ==
  LET f == CHOOSE k \in 1..Len(h) :
             h[k].tag = "script" /\ \A m \in 1..(k - 1) : h[m].tag # "script"
  IN SubSeq(h, 1, f - 1) \o <<j>> \o SubSeq(h, f, Len(h))

\* What the content of the script element with this id does when the
\* browser runs it, which is when the element is appended (Analytics.tsx:51):
\* the snippets of Tag Manager (86-90), TikTok (152) and Hotjar (168-174,
\* with a numeric id) create the script element of their library, the one of
\* Meta Pixel (117-124) does so unless window.fbq is already defined; the
\* GA4 snippet (69-75) only calls gtag.
RunSnippet(st, id, by) ==
  CASE id = "gtm-init" ->
         [st EXCEPT !.head = InsertBeforeFirstScript(@, LoaderScript(st, "gtm.js", by))]
    [] id = "meta-pixel" ->
         IF st.fbq THEN st
         ELSE [st EXCEPT !.fbq = TRUE,
                         !.head = InsertBeforeFirstScript(
                                    @, LoaderScript(st, "fbevents.js", by))]
    [] id = "tiktok-pixel" ->
         [st EXCEPT !.head = InsertBeforeFirstScript(@, LoaderScript(st, "events.js", by))]
    [] id = "hotjar" ->
         [st EXCEPT !.head = Append(@, LoaderScript(st, "hotjar.js", by))]
    [] OTHER -> st

\* injectScript(id, content, options), Analytics.tsx:33-53, on
\* st = [head, body, fbq, made], made being scriptsToCleanup.
injectScript(st, id, by) ==
  IF Finds(st.head, st.body, "id", id) THEN st
  ELSE LET script == Node("script", "id", id, by, 0)
           appended == RunSnippet([st EXCEPT !.head = Append(@, script)], id, by)
       IN [appended EXCEPT !.made = Append(@, script)]

\* The noscript blocks of Analytics.tsx:96-107 (prepended to body) and
\* 131-142 (appended to body); the node is not pushed to scriptsToCleanup.
InjectNoscript(st, id, by, prepend) ==
  IF Finds(st.head, st.body, "id", id) THEN st
  ELSE LET noscript == Node("noscript", "id", id, by, 0) IN
       [st EXCEPT !.body = IF prepend THEN <<noscript>> \o @ ELSE Append(@, noscript)]

\* Mutant of InjectAnalytics: the Hotjar snippet is injected whatever its id.
InjectAnalytics_HotjarUnguarded(st, analytics, by) ==
  LET Ga4(x) == IF JsTruthy(analytics.google_analytics_id)
                  THEN injectScript(injectScript(x, "ga4-loader", by), "ga4-init", by)
                  ELSE x
      Gtm(x) == IF JsTruthy(analytics.google_tag_manager_id)
                  THEN InjectNoscript(injectScript(x, "gtm-init", by),
                                      "gtm-noscript", by, TRUE)
                  ELSE x
      Meta(x) == IF JsTruthy(analytics.meta_pixel_id)
                   THEN InjectNoscript(injectScript(x, "meta-pixel", by),
                                       "meta-pixel-noscript", by, FALSE)
                   ELSE x
      TikTok(x) == IF JsTruthy(analytics.tiktok_pixel_id)
                     THEN injectScript(x, "tiktok-pixel", by) ELSE x
      Hotjar(x) == IF JsTruthy(analytics.hotjar_id) THEN injectScript(x, "hotjar", by)
                   ELSE IF Finds(x.head, x.body, "id", "hotjar") THEN x
                   ELSE LET script == Node("script", "id", "hotjar", by, 0) IN
                        [x EXCEPT !.head = Append(@, script), !.made = Append(@, script)]
  IN Hotjar(TikTok(Meta(Gtm(Ga4(st)))))

\* The five provider blocks of the effect, Analytics.tsx:55-178.
InjectAnalytics(st, analytics, by) ==
  LET Ga4(x) == IF JsTruthy(analytics.google_analytics_id)
                  THEN injectScript(injectScript(x, "ga4-loader", by), "ga4-init", by)
                  ELSE x
      Gtm(x) == IF JsTruthy(analytics.google_tag_manager_id)
                  THEN InjectNoscript(injectScript(x, "gtm-init", by),
                                      "gtm-noscript", by, TRUE)
                  ELSE x
      Meta(x) == IF JsTruthy(analytics.meta_pixel_id)
                   THEN InjectNoscript(injectScript(x, "meta-pixel", by),
                                       "meta-pixel-noscript", by, FALSE)
                   ELSE x
      TikTok(x) == IF JsTruthy(analytics.tiktok_pixel_id)
                     THEN injectScript(x, "tiktok-pixel", by) ELSE x
      Hotjar(x) == IF JsTruthy(analytics.hotjar_id)
                     THEN injectScript(x, "hotjar", by) ELSE x
  IN Hotjar(TikTok(Meta(Gtm(Ga4(st)))))

\* Mutant of AnalyticsEffect: the effect does not test isLoading.
AnalyticsEffect_IgnoresLoading(st, i, s, loading) ==
  LET c == st.cons[i] IN
  IF s = None \/ c.hasInjected THEN st
  ELSE LET Injected(r) ==
             [head |-> r.head, body |-> r.body, fbq |-> r.fbq,
              cons |-> [st.cons EXCEPT ![i] =
                          [c EXCEPT !.tracked = r.made, !.hasInjected = TRUE,
                                    !.cleanup = TRUE]]]
       IN Injected(InjectAnalytics([head |-> st.head, body |-> st.body,
                                    fbq |-> st.fbq, made |-> <<>>],
                                   s[1].analytics, i))

\* The effect of Analytics.tsx:26-182 of instance i under the context value
\* (s, loading), on st = [head, body, cons].
AnalyticsEffect(st, i, s, loading) ==
  LET c == st.cons[i] IN
  IF loading \/ s = None \/ c.hasInjected THEN st
  ELSE LET Injected(r) ==
             [head |-> r.head, body |-> r.body, fbq |-> r.fbq,
              cons |-> [st.cons EXCEPT ![i] =
                          [c EXCEPT !.tracked = r.made, !.hasInjected = TRUE,
                                    !.cleanup = TRUE]]]
       IN Injected(InjectAnalytics([head |-> st.head, body |-> st.body,
                                    fbq |-> st.fbq, made |-> <<>>],
                                   s[1].analytics, i))

\* The cleanup of Analytics.tsx:184-194, if the last run of the effect
\* returned one.
AnalyticsCleanup(st, i) ==
  LET c == st.cons[i] IN
  IF ~c.cleanup THEN st
  ELSE [fbq |-> st.fbq, head |-> RemoveAll(st.head, c.tracked),
        body |-> RemoveAll(st.body, c.tracked),
        cons |-> [st.cons EXCEPT ![i] =
                    [c EXCEPT !.tracked = <<>>, !.hasInjected = FALSE,
                              !.cleanup = FALSE]]]

\* injectIntoBody(script, prepend), SEOInjector.tsx:269-303, on
\* st = [head, body, made], made being elementsToCleanup.
injectIntoBody(st, script, prepend, by) ==
  IF script.value = <<>> THEN st
  ELSE IF Finds(st.head, st.body, "data-seo-setting", script.key) THEN st
  ELSE IF script.setting_type \in {"script", "custom_html"}
    THEN LET el == Node(IF script.setting_type = "script" THEN "script" ELSE "div",
                        "data-seo-setting", script.key, by, 0)
         IN [st EXCEPT !.body = IF prepend THEN <<el>> \o @ ELSE Append(@, el),
                       !.made = Append(@, el)]
  ELSE st

\* scripts.forEach((script) => injectIntoBody(script, prepend)),
\* SEOInjector.tsx:306 and 309.
RECURSIVE InjectBodyAll(_, _, _, _, _)
InjectBodyAll(st, scripts, j, prepend, by) ==
  IF j > Len(scripts) THEN st
  ELSE InjectBodyAll(injectIntoBody(st, scripts[j], prepend, by), scripts, j + 1,
                     prepend, by)

\* The stored markup values of the model.
HtmlOneTag == <<Raw("<meta>")>>
HtmlTwoTags == <<Raw("<meta> <meta>")>>

\* temp.innerHTML = script.value (SEOInjector.tsx:345-346): the child nodes
\* of temp, each an element or a text node.
ParseHTML(value) ==
  IF value = HtmlOneTag THEN <<"element">>
  ELSE IF value = HtmlTwoTags THEN <<"element", "text", "element">>
  ELSE <<"text">>

\* The loop of SEOInjector.tsx:349-358: every child of temp is moved to the
\* end of head; an element is tagged with the key and pushed to headElements.
RECURSIVE MoveChildren(_, _, _, _, _)
MoveChildren(st, children, j, key, by) ==
  IF j > Len(children) THEN st
  ELSE LET child == IF children[j] = "element"
                      THEN Node("element", "data-head-setting", key, by, j)
                      ELSE Node("text", "none", key, by, j)
       IN MoveChildren([st EXCEPT !.head = Append(@, child),
                                  !.made = IF children[j] = "element"
                                             THEN Append(@, child) ELSE @],
                       children, j + 1, key, by)

\* injectIntoHead(script), SEOInjector.tsx:335-360.
injectIntoHead(st, script, by) ==
  IF script.value = <<>> THEN st
  ELSE IF Finds(st.head, st.body, "data-head-setting", script.key) THEN st
  ELSE IF script.setting_type \in {"meta_tag", "custom_html"}
    THEN MoveChildren(st, ParseHTML(script.value), 1, script.key, by)
  ELSE st

\* scripts.forEach(injectIntoHead), SEOInjector.tsx:363-364.
RECURSIVE InjectHeadAll(_, _, _, _)
InjectHeadAll(st, scripts, j, by) ==
  IF j > Len(scripts) THEN st
  ELSE InjectHeadAll(injectIntoHead(st, scripts[j], by), scripts, j + 1, by)

\* The body effect of SEOInjector.tsx:263-312.
SeoBodyEffect(st, i, s, loading) ==
  IF loading \/ s = None THEN st
  ELSE LET r0 == [head |-> st.head, body |-> st.body, fbq |-> st.fbq, made |-> <<>>]
           r1 == InjectBodyAll(r0, s[1].scripts.body_start, 1, TRUE, i)
           Injected(r2) ==
             [head |-> r2.head, body |-> r2.body, fbq |-> r2.fbq,
              cons |-> [st.cons EXCEPT ![i].tracked = r2.made, ![i].cleanup = TRUE]]
       IN Injected(InjectBodyAll(r1, s[1].scripts.body_end, 1, FALSE, i))

\* Mutant of SeoBodyCleanup: the cleanup removes every node that carries the
\* data-seo-setting marker, whichever instance created it.
SeoBodyCleanup_AllMarked(st, i) ==
  LET c == st.cons[i] IN
  IF ~c.cleanup THEN st
  ELSE [fbq |-> st.fbq, head |-> st.head,
        body |-> SelectSeq(st.body, LAMBDA n : n.attr # "data-seo-setting"),
        cons |-> [st.cons EXCEPT ![i].tracked = <<>>, ![i].cleanup = FALSE]]

\* The cleanup of SEOInjector.tsx:314-323.
SeoBodyCleanup(st, i) ==
  LET c == st.cons[i] IN
  IF ~c.cleanup THEN st
  ELSE [fbq |-> st.fbq, head |-> RemoveAll(st.head, c.tracked),
        body |-> RemoveAll(st.body, c.tracked),
        cons |-> [st.cons EXCEPT ![i].tracked = <<>>, ![i].cleanup = FALSE]]

\* The head effect of SEOInjector.tsx:330-364.
SeoHeadEffect(st, i, s, loading) ==
  IF loading \/ s = None THEN st
  ELSE LET r0 == [head |-> st.head, body |-> st.body, fbq |-> st.fbq, made |-> <<>>]
           r1 == InjectHeadAll(r0, s[1].scripts.head_start, 1, i)
           Injected(r2) ==
             [head |-> r2.head, body |-> r2.body, fbq |-> r2.fbq,
              cons |-> [st.cons EXCEPT ![i].headElements = r2.made,
                                       ![i].headCleanup = TRUE]]
       IN Injected(InjectHeadAll(r1, s[1].scripts.head_end, 1, i))

\* The cleanup of SEOInjector.tsx:367-375.
SeoHeadCleanup(st, i) ==
  LET c == st.cons[i] IN
  IF ~c.headCleanup THEN st
  ELSE [fbq |-> st.fbq, head |-> RemoveAll(st.head, c.headElements),
        body |-> RemoveAll(st.body, c.headElements),
        cons |-> [st.cons EXCEPT ![i].headElements = <<>>, ![i].headCleanup = FALSE]]

\* The effects of instance i, in the order of their declaration.
EffectOf(st, i, s, loading) ==
  IF KindOf(i) = "analytics" THEN AnalyticsEffect(st, i, s, loading)
  ELSE SeoHeadEffect(SeoBodyEffect(st, i, s, loading), i, s, loading)

\* The registered cleanups of instance i.
CleanupOf(st, i) ==
  IF KindOf(i) = "analytics" THEN AnalyticsCleanup(st, i)
  ELSE SeoHeadCleanup(SeoBodyCleanup(st, i), i)

\* The cleanups of the mounted instances, in the order of the tree.
RECURSIVE CleanupAll(_, _, _)
CleanupAll(st, order, j) ==
  IF j > Len(order) THEN st
  ELSE CleanupAll(IF st.cons[order[j]].mounted
                    THEN CleanupOf(st, order[j]) ELSE st, order, j + 1)

\* The effects of the mounted instances, in the order of the tree.
RECURSIVE EffectAll(_, _, _, _, _)
EffectAll(st, order, j, s, loading) ==
  IF j > Len(order) THEN st
  ELSE EffectAll(IF st.cons[order[j]].mounted
                   THEN EffectOf(st, order[j], s, loading) ELSE st,
                 order, j + 1, s, loading)

\* The commit that follows a change of the dependencies [isLoading,
\* analytics] (Analytics.tsx:195) and [isLoading, scripts]
\* (SEOInjector.tsx:324, 376): all cleanups, then all effects.
Commit(st, order, s, loading) ==
  EffectAll(CleanupAll(st, order, 1), order, 1, s, loading)

\* The injection of one script as the two effects do it: head_start and
\* head_end through injectIntoHead (SEOInjector.tsx:363-364), body_start
\* with prepend = true and body_end with prepend = false (306, 309).
InjectOne(st, script, point, by) ==
  IF point \in {"head_start", "head_end"} THEN injectIntoHead(st, script, by)
  ELSE injectIntoBody(st, script, point = "body_start", by)

\* Rows from which the bundles of the document model are parsed.
RowsDomFull ==
  << Row(Some("settings_analytics"),
         Some(<<LBrace, Str("google_tag_manager_id"), Colon, Str("GTM-X"), Comma,
                Str("meta_pixel_id"), Colon, Str("P1"), RBrace>>),
         None, None, None, None, None),
     Row(Some("hm"), Some(HtmlTwoTags), Some("meta_tag"), Some("head_start"),
         None, None, None),
     Row(Some("bs"), Payload, Some("script"), Some("body_start"), None, None, None),
     Row(Some("be"), Payload, Some("custom_html"), Some("body_end"),
         None, None, None) >>

RowsDomGa ==
  << Row(Some("settings_analytics"),
         Some(<<LBrace, Str("google_analytics_id"), Colon, Str("G-X"), Comma,
                Str("tiktok_pixel_id"), Colon, Str("T1"), Comma,
                Str("hotjar_id"), Colon, Str("123"), RBrace>>),
         None, None, None, None, None),
     Row(Some("he"), Some(HtmlOneTag), Some("custom_html"), Some("head_end"),
         None, None, None),
     Row(Some("p1"), Payload, Some("script"), Some("body_start"), None, None, None),
     Row(Some("p2"), Payload, Some("script"), Some("body_start"), None, None, None) >>

\* What the store answers to the query in the document model: either of
\* the two row sets, or an error result.
DomResponses ==
  { [kind |-> "data", data |-> Some(RowsDomFull)],
    [kind |-> "data", data |-> Some(RowsDomGa)],
    [kind |-> "error", data |-> None] }

\* The state of the loader and of the provider, which the steps of the
\* consumers leave alone.
loaderRest ==
  << settingsCache, pendingRequest, requests, ncalls, lastCall, now, error,
     mounted, clears, ticks, clearedSinceCall, lastSettled, continuations >>

Cur == [head |-> head, body |-> body, fbq |-> fbq, cons |-> consumers]

Apply(st) ==
  head' = st.head /\ body' = st.body /\ fbq' = st.fbq /\ consumers' = st.cons

\* The steps the loader and the provider have taken: the calls of
\* loadSettings, the promises settled and the calls resumed.
LoaderSteps ==
  ncalls + Cardinality({r \in 1..Len(requests) : requests[r].state # "inflight"})
         + (ncalls - Len(continuations))

\* The document model takes at most MaxDomSteps steps.
DomBudget == domSteps + LoaderSteps < MaxDomSteps

DomStep == DomBudget /\ domSteps' = domSteps + 1

\* What a loadSettings call awaits: what fetchAllSiteSettings returned, for
\* the cached data the promise whose object it is, and whether what is
\* awaited was settled when the call was made: the cached data, or a
\* promise that ended inside the call that created it.
Awaited(call) ==
  [ src |-> call.src,
    req |-> IF call.src = "cache"
              THEN CHOOSE r \in 1..Len(requests) : requests[r].cached
              ELSE call.req,
    value |-> call.value,
    settled |-> call.src = "cache" \/ requests'[call.req].state # "inflight" ]

\* loadSettings(), SiteSettingsContext.tsx:567-573, up to its await:
\* setIsLoading(true), setError(null), the call of fetchAllSiteSettings.
\* Whatever the call returns, also the cached bundle, is awaited, so the
\* rest of loadSettings runs in a later microtask.
LoadSettings(raises) ==
  /\ FetchAll("provider", raises)
  /\ isLoading' = TRUE
  /\ error' = None
  /\ continuations' = Append(continuations, Awaited(lastCall'[1]))
  /\ UNCHANGED settings

\* The continuation c can resume: the promise it awaits is settled.
IsReady(c) ==
  IF c.src = "cache" THEN TRUE ELSE requests[c.req].state # "inflight"

\* A continuation of loadSettings is in the microtask queue.  The queue is
\* emptied before the next task (an answer of the network, a timer) starts.
MicrotaskQueued == \E k \in 1..Len(continuations) : IsReady(continuations[k])

\* The microtasks of an answer of the network are queued: a continuation
\* can resume that was suspended on a promise in flight.  The code that
\* calls the loader and the provider runs in tasks, so no call is made
\* until they have run.
AnswerQueued ==
  \E k \in 1..Len(continuations) :
    IsReady(continuations[k]) /\ ~continuations[k].settled

\* The oldest continuation that can resume.  Continuations resume in the
\* order of their calls: the calls of one task whose awaited value is
\* settled at once are either all served from the cache or none is, and
\* the calls that await one promise resume in the order of their calls.
FirstReady ==
  CHOOSE k \in 1..Len(continuations) :
    IsReady(continuations[k]) /\ \A m \in 1..(k - 1) : ~IsReady(continuations[m])

\* The rest of loadSettings after its await, SiteSettingsContext.tsx:574-580:
\* setSettings(allSettings) for a fulfilled promise, setError for a
\* rejected one, and setIsLoading(false) in the `finally`.
LoadResumes ==
  /\ MicrotaskQueued
  /\ LET c == continuations[FirstReady]
         rejected == c.src # "cache" /\ requests[c.req].state = "rejected"
     IN
     /\ IF c.src = "cache"
          THEN settings' = c.value /\ UNCHANGED error
        ELSE IF requests[c.req].state = "fulfilled"
          THEN settings' = requests[c.req].value /\ UNCHANGED error
        ELSE error' = Some("Error") /\ UNCHANGED settings
     /\ requests' = IF rejected THEN requests
                    ELSE [r \in 1..Len(requests) |->
                            [requests[r] EXCEPT !.applied = (r = c.req)]]
     /\ isLoading' = FALSE
     /\ continuations' = SubSeq(continuations, 1, FirstReady - 1)
                            \o SubSeq(continuations, FirstReady + 1, Len(continuations))
  /\ UNCHANGED << settingsCache, pendingRequest, ncalls, lastCall, now,
                  mounted, clears, ticks, clearedSinceCall, lastSettled, parserVars,
                  viewVars >>

\* The mount effect of the provider, SiteSettingsContext.tsx:588-590.
Mount(raises) ==
  /\ ~AnswerQueued
  /\ ~mounted
  /\ mounted' = TRUE
  /\ LoadSettings(raises)
  /\ UNCHANGED << now, clears, ticks, parserVars, viewVars >>

\* A direct call of the exported fetchAllSiteSettings.
FetchCall(raises) ==
  /\ ~AnswerQueued
  /\ FetchAll("direct", raises)
  /\ UNCHANGED << now, settings, isLoading, error, mounted, clears, ticks,
                  continuations, parserVars, viewVars >>

\* clearSettingsCache(), settings.ts:317-320.
ClearSettingsCache ==
  /\ ~AnswerQueued
  /\ clears < MaxClears
  /\ settingsCache' = None
  /\ pendingRequest' = None
  /\ clears' = clears + 1
  /\ clearedSinceCall' = TRUE
  /\ requests' = [r \in 1..Len(requests) |-> [requests[r] EXCEPT !.cached = FALSE]]
  /\ UNCHANGED << ncalls, lastCall, now, settings, isLoading, error,
                  mounted, ticks, lastSettled, continuations, parserVars, viewVars >>

\* refreshSettings(), SiteSettingsContext.tsx:583-586: clearSettingsCache()
\* and then loadSettings() up to its await, in one task.  Both slots are
\* empty when fetchAllSiteSettings is called, so it creates a promise.
\* The function is part of the context value from the first render on, so
\* a child can call it before the mount effect of the provider has run.
RefreshSettings(raises) ==
  /\ ~AnswerQueued
  /\ clears < MaxClears
  /\ ncalls < MaxCalls
  /\ ncalls' = ncalls + 1
  /\ clears' = clears + 1
  /\ clearedSinceCall' = FALSE
  /\ lastSettled' = IF raises
                      THEN Some([req |-> Len(requests) + 1, outcome |-> "throw"])
                      ELSE None
  /\ requests' = Append([r \in 1..Len(requests) |->
                           [requests[r] EXCEPT !.cached = FALSE]],
                        StartRequest("provider", clears + 1, raises, None, now))
  /\ pendingRequest' = Some(Len(requests) + 1)
  /\ lastCall' = Some(CallRec("request", Len(requests) + 1, None))
  /\ settingsCache' = None
  /\ isLoading' = TRUE
  /\ error' = None
  /\ continuations' = Append(continuations, Awaited(lastCall'[1]))
  /\ UNCHANGED << now, settings, mounted, ticks, parserVars, viewVars >>

\* Some loadSettings call of the provider awaits request r.
ProviderAwaits(r) == requests[r].provider

\* The query of request r is answered, in a task of its own: the rest of
\* the promise body runs (settings.ts:188-208).  A loadSettings call that
\* awaits the promise resumes later, in LoadResumes.
QueryCompletes(r, resp) ==
  /\ ~MicrotaskQueued
  /\ r \in 1..Len(requests)
  /\ requests[r].state = "inflight"
  /\ LET res == CompleteRequest(resp, settingsCache, now) IN
     /\ requests' = [k \in 1..Len(requests) |->
                       IF k = r
                         THEN [requests[r] EXCEPT !.state = res.state,
                                                  !.value = res.value,
                                                  !.cached = (res.outcome = "ok")]
                         ELSE [requests[k] EXCEPT !.cached = @ /\ res.outcome # "ok"]]
     /\ settingsCache' = res.cache
     /\ pendingRequest' = PendingAfterFinally(pendingRequest, r)
     /\ lastSettled' = Some([req |-> r, outcome |-> res.outcome])
  /\ UNCHANGED << ncalls, lastCall, now, settings, isLoading, error, mounted, clears,
                  ticks, clearedSinceCall, continuations, parserVars, viewVars >>

\* Time passes.  Only the age of the cached bundle is ever read
\* (settings.ts:169), so the clock is advanced only while the slot is filled.
Tick(d) ==
  /\ ~MicrotaskQueued
  /\ ticks < MaxTicks
  /\ settingsCache # None
  /\ now' = now + d
  /\ ticks' = ticks + 1
  /\ UNCHANGED << settingsCache, pendingRequest, requests, ncalls, lastCall,
                  settings, isLoading, error, mounted, clears, clearedSinceCall,
                  lastSettled, continuations, parserVars, viewVars >>

Init ==
  /\ settingsCache = None
  /\ pendingRequest = None
  /\ requests = <<>>
  /\ ncalls = 0
  /\ lastCall = None
  /\ now = 0
  /\ settings = None
  /\ isLoading = TRUE
  /\ error = None
  /\ mounted = FALSE
  /\ clears = 0
  /\ ticks = 0
  /\ clearedSinceCall = FALSE
  /\ lastSettled = None
  /\ continuations = <<>>
  /\ rows = <<>>
  /\ parsed = None
  /\ threw = FALSE
  /\ ViewIdle

Next ==
  \/ \E raises \in BOOLEAN : Mount(raises)
  \/ \E raises \in BOOLEAN : FetchCall(raises)
  \/ ClearSettingsCache
  \/ \E raises \in BOOLEAN : RefreshSettings(raises)
  \/ LoadResumes
  \/ \E r \in 1..Len(requests) : \E resp \in Responses : QueryCompletes(r, resp)
  \/ \E d \in TickSteps : Tick(d)

Spec == Init /\ [][Next]_vars

\* The loader under the assumption that the network answers every query:
\* the answer of a request in flight is not postponed forever.  The history
\* is kept to MaxLiveCalls calls and MaxLiveClears clears.
NextLive ==
  \/ ncalls < MaxLiveCalls /\ \E raises \in BOOLEAN : Mount(raises)
  \/ ncalls < MaxLiveCalls /\ \E raises \in BOOLEAN : FetchCall(raises)
  \/ clears < MaxLiveClears /\ ClearSettingsCache
  \/ ncalls < MaxLiveCalls /\ clears < MaxLiveClears
       /\ \E raises \in BOOLEAN : RefreshSettings(raises)
  \/ LoadResumes
  \/ \E r \in 1..Len(requests) : \E resp \in Responses : QueryCompletes(r, resp)
  \/ \E d \in TickSteps : Tick(d)

QueriesComplete ==
  /\ \A r \in 1..MaxLiveCalls :
       WF_vars(\E resp \in Responses : QueryCompletes(r, resp))
  /\ WF_vars(LoadResumes)

SpecLive == Init /\ [][NextLive]_vars /\ QueriesComplete

\* The state of the provider as a context value.
ProviderValue ==
  [ settings |-> settings, isLoading |-> isLoading,
    object |-> IF \E r \in 1..Len(requests) : requests[r].applied
                 THEN CHOOSE r \in 1..Len(requests) : requests[r].applied
                 ELSE 0 ]

\* The provider renders with the state its setters have left
\* (SiteSettingsContext.tsx:592-596) and the consumers commit: their effects
\* depend on [isLoading, analytics] (Analytics.tsx:195) and on [isLoading,
\* scripts] (SEOInjector.tsx:324, 376).  React is not part of the sources;
\* the render is taken as a root that batches state updates does it, in a
\* task after the code that called the setters has returned and the
\* microtasks have run.  Setter calls that leave the state as it was last
\* rendered cause no commit, and several changes made before the render
\* are committed once.
Render ==
  /\ ~MicrotaskQueued
  /\ context # ProviderValue
  /\ context' = ProviderValue
  /\ Apply(Commit(Cur, treeOrder, settings, isLoading))
  /\ UNCHANGED << domSteps, treeOrder, loaderVars, parserVars, helmetVars, buildVars >>

\* A consumer instance is mounted, in a task of its own: its effects run
\* under the context value of the last render.
MountConsumer(i) ==
  /\ ~MicrotaskQueued
  /\ DomStep
  /\ ~consumers[i].mounted
  /\ Apply(EffectOf([Cur EXCEPT !.cons[i].mounted = TRUE], i,
                    context.settings, context.isLoading))
  /\ UNCHANGED << settings, isLoading, treeOrder, context, loaderRest, parserVars,
                  helmetVars, buildVars >>

\* A consumer instance is unmounted: its registered cleanups run and the
\* instance, with its refs, is gone.
UnmountConsumer(i) ==
  /\ ~MicrotaskQueued
  /\ DomStep
  /\ consumers[i].mounted
  /\ Apply([CleanupOf(Cur, i) EXCEPT !.cons[i] = FreshConsumer])
  /\ UNCHANGED << settings, isLoading, treeOrder, context, loaderRest, parserVars,
                  helmetVars, buildVars >>

\* Some other script detaches an element of the consumers from the document.
ForeignRemove ==
  /\ ~MicrotaskQueued
  /\ DomStep
  /\ \E n \in { m \in Range(head) \cup Range(body) : m.tag # "text" } :
       /\ head' = RemoveAll(head, <<n>>)
       /\ body' = RemoveAll(body, <<n>>)
  /\ UNCHANGED << consumers, settings, isLoading, treeOrder, fbq, context,
                  loaderRest, parserVars, helmetVars, buildVars >>

\* The provider has rendered and no effect has run: fetchAllSiteSettings
\* was never called and no consumer is mounted.  The effects of the
\* consumers, which are children of the provider, may run before the mount
\* effect of the provider.  The tree of the application is one of TreeOrders.
InitDom ==
  /\ settingsCache = None
  /\ pendingRequest = None
  /\ requests = <<>>
  /\ ncalls = 0
  /\ lastCall = None
  /\ now = 0
  /\ settings = None
  /\ isLoading = TRUE
  /\ error = None
  /\ mounted = FALSE
  /\ clears = 0
  /\ ticks = 0
  /\ clearedSinceCall = FALSE
  /\ lastSettled = None
  /\ continuations = <<>>
  /\ rows = <<>>
  /\ parsed = None
  /\ threw = FALSE
  /\ head = <<>>
  /\ body = <<>>
  /\ consumers = [i \in Instances |-> FreshConsumer]
  /\ domSteps = 0
  /\ treeOrder \in TreeOrders
  /\ fbq = FALSE
  /\ context = FirstContext
  /\ pathname = "/"
  /\ pageMeta = NoPageMeta
  /\ rendered = None
  /\ build = BuildIdle

\* The document model: the provider and the loader under it, with at most
\* MaxLoads calls of loadSettings, and the steps of the consumers, at most
\* MaxDomSteps steps in all, and the renders of the provider.  Which of the
\* tasks that are due runs next (a render, an answer of the network, the
\* mount or unmount of a consumer) is the choice of the event loop.
NextDom ==
  \/ \E i \in Instances : MountConsumer(i)
  \/ \E i \in Instances : UnmountConsumer(i)
  \/ ForeignRemove
  \/ Render
  \/ DomBudget /\ \E raises \in BOOLEAN : Mount(raises)
  \/ DomBudget /\ ncalls < MaxLoads /\ \E raises \in BOOLEAN : RefreshSettings(raises)
  \/ DomBudget /\ LoadResumes
  \/ DomBudget /\ \E r \in 1..Len(requests) : \E resp \in DomResponses :
                     QueryCompletes(r, resp)

SpecDom == InitDom /\ [][NextDom]_vars

----------------------------------------------------------------------------
(* What SEOInjector renders into Helmet (SEOInjector.tsx:381-500): a        *)
(* sequence of tags, each a name and a content.                             *)

Tag(name, content) == [name |-> name, content |-> content]

\* a || b on nullable strings.
OrJs(a, b) == IF TruthyStr(a) THEN a ELSE b

\* {value && <tag/>}: the tag is rendered for a non-empty string.
Cond(o, name) == IF TruthyStr(o) THEN << Tag(name, o[1]) >> ELSE <<>>

\* settings?.group.f as a nullable string: undefined for a null bundle, null
\* for a stored JSON null.
FieldOf(s, group, f) ==
  IF s = None THEN None
  ELSE IF s[1][group][f] = JsNull THEN None
  ELSE Some(s[1][group][f])

\* keywords.join(', ') on the keyword lists of the model.
Join(ks) ==
  IF ks = <<>> THEN ""
  ELSE IF Len(ks) = 1 THEN ks[1]
  ELSE IF ks = <<"mall", "shop">> THEN "mall, shop"
  ELSE "joined"

\* pageMeta?.keywords?.join(', '), SEOInjector.tsx:422.
JoinKeywords(ks) == IF ks = None THEN None ELSE Some(Join(ks[1]))

\* renderScript(script), SEOInjector.tsx:381-413: nothing, or one tag.
renderScript(script) ==
  IF script.value = <<>> THEN <<>>
  ELSE IF script.setting_type \in {"meta_tag", "custom_html"} THEN <<>>
  ELSE IF script.setting_type = "script" THEN << Tag("script", script.id) >>
  ELSE IF script.setting_type = "link" THEN << Tag("stylesheet", script.id) >>
  ELSE IF script.setting_type = "json_ld" THEN << Tag("ld+json", script.id) >>
  ELSE <<>>

RECURSIVE RenderAll(_, _)
RenderAll(scripts, j) ==
  IF j > Len(scripts) THEN <<>>
  ELSE renderScript(scripts[j]) \o RenderAll(scripts, j + 1)

\* The custom scripts of the head, SEOInjector.tsx:493-498.
HelmetScripts(s, loading) ==
  IF ~loading /\ s # None
    THEN RenderAll(s[1].scripts.head_start, 1) \o RenderAll(s[1].scripts.head_end, 1)
    ELSE <<>>

\* Mutant of HelmetTags: the Open Graph block is rendered on every view.
HelmetTags_OgEverywhere(pm, path, s, loading) ==
  LET isHomepage == path = "/"
      seo(f) == FieldOf(s, "seo", f)
      general(f) == FieldOf(s, "general", f)
      title == OrJs(pm.title, IF isHomepage THEN seo("meta_title") ELSE None)
      description ==
        OrJs(pm.description, IF isHomepage THEN seo("meta_description") ELSE None)
      ogImage == OrJs(OrJs(pm.ogImage, seo("og_image_url")), Some(""))
      canonical ==
        OrJs(pm.canonical, IF isHomepage THEN seo("canonical_url") ELSE None)
      keywords ==
        OrJs(JoinKeywords(pm.keywords),
             IF isHomepage THEN seo("meta_keywords") ELSE None)
      robots == OrJs(seo("robots"), Some("index, follow"))
      ogTitle == IF isHomepage THEN OrJs(seo("og_title"), title) ELSE None
      ogDescription ==
        IF isHomepage THEN OrJs(seo("og_description"), description) ELSE None
      ogType == OrJs(seo("og_type"), Some("website"))
      twitterCard == OrJs(seo("twitter_card"), Some("summary_large_image"))
      twitterSite == OrJs(seo("twitter_site"), Some(""))
      twitterCreator == OrJs(seo("twitter_creator"), Some(""))
      siteName == OrJs(general("site_name"), Some("Supermal Karawaci"))
      faviconUrl == OrJs(general("favicon_url"), Some("/vite.svg"))
  IN << Tag("charset", "UTF-8"),
        Tag("viewport", "width=device-width, initial-scale=1.0") >>
     \o Cond(title, "title")
     \o Cond(description, "description")
     \o << Tag("robots", robots[1]) >>
     \o Cond(keywords, "keywords")
     \o Cond(canonical, "canonical")
     \o << Tag("icon", faviconUrl[1]) >>
     \o (IF TRUE
           THEN << Tag("og:type", ogType[1]), Tag("og:site_name", siteName[1]),
                   Tag("og:locale", "id_ID") >>
                \o Cond(ogTitle, "og:title")
                \o Cond(ogDescription, "og:description")
                \o Cond(canonical, "og:url")
                \o Cond(ogImage, "og:image")
           ELSE <<>>)
     \o (IF isHomepage
           THEN << Tag("twitter:card", twitterCard[1]) >>
                \o Cond(ogTitle, "twitter:title")
                \o Cond(ogDescription, "twitter:description")
                \o Cond(twitterSite, "twitter:site")
                \o Cond(twitterCreator, "twitter:creator")
                \o Cond(ogImage, "twitter:image")
           ELSE <<>>)
     \o Cond(seo("google_site_verification"), "google-site-verification")
     \o Cond(seo("bing_site_verification"), "msvalidate.01")
     \o HelmetScripts(s, loading)

\* The values of SEOInjector.tsx:418-433 and the children of <Helmet>,
\* SEOInjector.tsx:435-500.
HelmetTags(pm, path, s, loading) ==
  LET isHomepage == path = "/"
      seo(f) == FieldOf(s, "seo", f)
      general(f) == FieldOf(s, "general", f)
      title == OrJs(pm.title, IF isHomepage THEN seo("meta_title") ELSE None)
      description ==
        OrJs(pm.description, IF isHomepage THEN seo("meta_description") ELSE None)
      ogImage == OrJs(OrJs(pm.ogImage, seo("og_image_url")), Some(""))
      canonical ==
        OrJs(pm.canonical, IF isHomepage THEN seo("canonical_url") ELSE None)
      keywords ==
        OrJs(JoinKeywords(pm.keywords),
             IF isHomepage THEN seo("meta_keywords") ELSE None)
      robots == OrJs(seo("robots"), Some("index, follow"))
      ogTitle == IF isHomepage THEN OrJs(seo("og_title"), title) ELSE None
      ogDescription ==
        IF isHomepage THEN OrJs(seo("og_description"), description) ELSE None
      ogType == OrJs(seo("og_type"), Some("website"))
      twitterCard == OrJs(seo("twitter_card"), Some("summary_large_image"))
      twitterSite == OrJs(seo("twitter_site"), Some(""))
      twitterCreator == OrJs(seo("twitter_creator"), Some(""))
      siteName == OrJs(general("site_name"), Some("Supermal Karawaci"))
      faviconUrl == OrJs(general("favicon_url"), Some("/vite.svg"))
  IN << Tag("charset", "UTF-8"),
        Tag("viewport", "width=device-width, initial-scale=1.0") >>
     \o Cond(title, "title")
     \o Cond(description, "description")
     \o << Tag("robots", robots[1]) >>
     \o Cond(keywords, "keywords")
     \o Cond(canonical, "canonical")
     \o << Tag("icon", faviconUrl[1]) >>
     \o (IF isHomepage
           THEN << Tag("og:type", ogType[1]), Tag("og:site_name", siteName[1]),
                   Tag("og:locale", "id_ID") >>
                \o Cond(ogTitle, "og:title")
                \o Cond(ogDescription, "og:description")
                \o Cond(canonical, "og:url")
                \o Cond(ogImage, "og:image")
           ELSE <<>>)
     \o (IF isHomepage
           THEN << Tag("twitter:card", twitterCard[1]) >>
                \o Cond(ogTitle, "twitter:title")
                \o Cond(ogDescription, "twitter:description")
                \o Cond(twitterSite, "twitter:site")
                \o Cond(twitterCreator, "twitter:creator")
                \o Cond(ogImage, "twitter:image")
           ELSE <<>>)
     \o Cond(seo("google_site_verification"), "google-site-verification")
     \o Cond(seo("bing_site_verification"), "msvalidate.01")
     \o HelmetScripts(s, loading)

\* Rows with a value for every home-only field and one head script that
\* Helmet renders.
RowsHelmet ==
  << Row(Some("settings_seo"),
         Some(<< LBrace,
                 Str("meta_title"), Colon, Str("B-title"), Comma,
                 Str("meta_description"), Colon, Str("B-description"), Comma,
                 Str("meta_keywords"), Colon, Str("B-keywords"), Comma,
                 Str("canonical_url"), Colon, Str("B-canonical"), Comma,
                 Str("og_title"), Colon, Str("B-og-title"), Comma,
                 Str("og_description"), Colon, Str("B-og-description"), Comma,
                 Str("og_image_url"), Colon, Str("B-og-image"), Comma,
                 Str("twitter_site"), Colon, Str("B-twitter-site"), Comma,
                 Str("twitter_creator"), Colon, Str("B-twitter-creator"),
                 RBrace >>),
         None, None, None, None, None),
     Row(Some("ld"), Payload, Some("json_ld"), Some("head_end"), None, None, None) >>

\* Rows with one custom script of every kind in the head and in the body.
RowsKinds ==
  << Row(Some("h-meta"), Some(HtmlOneTag), Some("meta_tag"), Some("head_start"),
         None, None, None),
     Row(Some("h-script"), Payload, Some("script"), Some("head_start"),
         None, None, None),
     Row(Some("h-link"), Payload, Some("link"), Some("head_end"), None, None, None),
     Row(Some("h-ld"), Payload, Some("json_ld"), Some("head_end"), None, None, None),
     Row(Some("h-html"), Some(HtmlOneTag), Some("custom_html"), Some("head_end"),
         None, None, None),
     Row(Some("b-meta"), Some(HtmlOneTag), Some("meta_tag"), Some("body_start"),
         None, None, None),
     Row(Some("b-script"), Payload, Some("script"), Some("body_start"),
         None, None, None),
     Row(Some("b-link"), Payload, Some("link"), Some("body_end"), None, None, None),
     Row(Some("b-ld"), Payload, Some("json_ld"), Some("body_end"), None, None, None),
     Row(Some("b-html"), Some(HtmlOneTag), Some("custom_html"), Some("body_end"),
         None, None, None) >>

HelmetBundles ==
  { parseSettingsFromData(RowsHelmet), parseSettingsFromData(RowsKinds),
    getDefaultSettings }

Paths == {"/", "/about"}

PageMetas ==
  [ title : {None, Some(""), Some("P-title")},
    description : {None, Some("P-description")},
    ogImage : {None, Some("P-image")},
    canonical : {None, Some("P-canonical")},
    keywords : {None, Some(<<>>), Some(<<"mall", "shop">>)} ]

\* One render of SEOInjector.
RenderSEO ==
  /\ rendered = None
  /\ rendered' = Some(HelmetTags(pageMeta, pathname, settings, isLoading))
  /\ UNCHANGED << pathname, pageMeta, loaderVars, parserVars, domVars, buildVars >>

\* Any view, any pageMeta prop, and a context value the provider can show:
\* the null bundle while the first load runs, or a bundle.
InitHelmet ==
  /\ pathname \in Paths
  /\ pageMeta \in PageMetas
  /\ rendered = None
  /\ \/ settings = None /\ isLoading = TRUE
     \/ settings \in { Some(b) : b \in HelmetBundles } /\ isLoading \in BOOLEAN
  /\ settingsCache = None
  /\ pendingRequest = None
  /\ requests = <<>>
  /\ ncalls = 0
  /\ lastCall = None
  /\ now = 0
  /\ error = None
  /\ mounted = TRUE
  /\ clears = 0
  /\ ticks = 0
  /\ clearedSinceCall = FALSE
  /\ lastSettled = None
  /\ continuations = <<>>
  /\ rows = <<>>
  /\ parsed = None
  /\ threw = FALSE
  /\ head = <<>>
  /\ body = <<>>
  /\ consumers = [i \in Instances |-> FreshConsumer]
  /\ domSteps = 0
  /\ treeOrder = <<"A1", "A2", "S1", "S2">>
  /\ fbq = FALSE
  /\ context = [settings |-> settings, isLoading |-> isLoading, object |-> 0]
  /\ build = BuildIdle

NextHelmet == RenderSEO

SpecHelmet == InitHelmet /\ [][NextHelmet]_vars

----------------------------------------------------------------------------
(* The build-time script scripts/inject-seo.js: one run of the process,    *)
(* from loadEnv() to its exit.  index.html and the replacement strings are *)
(* sequences of lexemes: a double quote, a `>` and a line break are        *)
(* lexemes of their own, a lexeme begins at every `<`, and every other     *)
(* lexeme is the run of characters between those.                          *)

\* A .env file that exists: it can be read or not, and assigns the two
\* Supabase variables (None: no line for the variable).
File(readable, url, key) ==
  [exists |-> TRUE, readable |-> readable, vars |-> [url |-> url, key |-> key]]

EnvFiles ==
  { NoFile,
    File(FALSE, None, None),
    File(TRUE, Some("https://db"), Some("anon")),
    File(TRUE, Some("https://db"), Some("")) }

\* process.env before the script starts.
PresetEnvs == { NoEnvVars, [url |-> Some("https://db"), key |-> Some("anon")] }

\* The replacements of inject-seo.js:89-110 by the tag each rewrites, in the
\* order of the array.
TagNames ==
  << "title", "description", "canonical", "og:title", "og:description", "og:image",
     "twitter:title", "twitter:description", "twitter:image", "icon" >>

Quote == "\""
Gt == ">"
LineBreak == "\n"

\* The flag i of the patterns: a lexeme matches in either case (of the
\* lexemes of the model only the title element is also written in capitals).
IgnoreCase(x) ==
  CASE x = "<TITLE" -> "<title"
    [] x = "</TITLE" -> "</title"
    [] OTHER -> x

\* The text a pattern starts with (inject-seo.js:91-109), which is also the
\* text its replacement starts with.
Opening(t) ==
  CASE t = "title" -> << "<title", Gt >>
    [] t = "canonical" -> << "<link rel=", Quote, "canonical", Quote, " href=", Quote >>
    [] t = "icon" -> << "<link rel=", Quote, "icon", Quote >>
    [] t \in {"description", "twitter:title", "twitter:description", "twitter:image"} ->
         << "<meta name=", Quote, t, Quote, " content=", Quote >>
    [] OTHER -> << "<meta property=", Quote, t, Quote, " content=", Quote >>

\* The text a pattern ends with, which is also the text its replacement ends
\* with: `</title>` for the title and `">` for every other tag.
Closing(t) == IF t = "title" THEN << "</title", Gt >> ELSE << Quote, Gt >>

\* The literal text lit stands in text at lexeme i.
StartsWith(text, i, lit) ==
  /\ i + Len(lit) - 1 <= Len(text)
  /\ \A k \in 1..Len(lit) : IgnoreCase(text[i + k - 1]) = lit[k]

Least(S) == CHOOSE x \in S : \A y \in S : x <= y

\* The first match of /<opening>.*?<closing>/i (inject-seo.js:91-107): the
\* leftmost place where the opening stands and the closing follows on the
\* same line, up to the nearest closing.  `.` matches every character but a
\* line break, quotes and `>` included, so the match can run over the end of
\* its own tag into the tags that follow on the line.
LazyMatch(text, t) ==
  LET open == Opening(t)
      close == Closing(t)
      Ends(i) == { j \in (i + Len(open))..Len(text) :
                     /\ StartsWith(text, j, close)
                     /\ \A k \in (i + Len(open))..(j - 1) : text[k] # LineBreak }
      Starts == { i \in 1..Len(text) : StartsWith(text, i, open) /\ Ends(i) # {} }
  IN IF Starts = {} THEN None
     ELSE LET i == Least(Starts)
          IN Some([from |-> i, to |-> Least(Ends(i)) + Len(close) - 1])

\* The first match of /<link rel="icon"[^>]*href="[^"]*"[^>]*>/i
\* (inject-seo.js:109): after the opening, the last `href="` that no `>`
\* precedes and that a quote and later a `>` follow; the match ends at the
\* first `>` after the quote that closes the href.
IconMatch(text) ==
  LET open == Opening("icon")
      NextAt(x, from) ==
        LET S == { k \in from..Len(text) : text[k] = x }
        IN IF S = {} THEN 0 ELSE Least(S)
      EndOf(h) ==
        IF NextAt(Quote, h + 2) = 0 THEN 0 ELSE NextAt(Gt, NextAt(Quote, h + 2) + 1)
      Hrefs(i) == { h \in (i + Len(open))..(Len(text) - 1) :
                      /\ IgnoreCase(text[h]) \in {" href=", "href="}
                      /\ text[h + 1] = Quote
                      /\ \A k \in (i + Len(open))..h : text[k] # Gt
                      /\ EndOf(h) # 0 }
      Starts == { i \in 1..Len(text) : StartsWith(text, i, open) /\ Hrefs(i) # {} }
  IN IF Starts = {} THEN None
     ELSE LET i == Least(Starts)
              h == CHOOSE x \in Hrefs(i) : \A y \in Hrefs(i) : y <= x
          IN Some([from |-> i, to |-> EndOf(h)])

\* A placeholder tag of index.html with the given content, closed with `">`
\* or with `" />`.
ShellTag(t, content, selfClosed) ==
  LET end == IF selfClosed THEN << Quote, " /", Gt >> ELSE << Quote, Gt >>
  IN CASE t = "title" -> << "<title", Gt, content, "</title", Gt >>
       [] t = "icon" ->
            Opening(t) \o << " type=", Quote, "image/svg+xml", Quote, " href=", Quote,
                            content >> \o end
       [] OTHER -> Opening(t) \o << content >> \o end

\* The tags of index.html from the k-th on, each followed by sep.
RECURSIVE ShellTags(_, _, _)
ShellTags(k, selfClosed, sep) ==
  IF k > Len(TagNames) THEN <<>>
  ELSE ShellTag(TagNames[k], "shell", selfClosed) \o sep
         \o ShellTags(k + 1, selfClosed, sep)

\* index.html as shipped.  The file is not part of the sources, so the run
\* starts with one of four files: every tag on a line of its own and closed
\* with `">`; the same with the tags closed with `" />`; a file of one line
\* that mixes the two and writes the title element in capitals; a file
\* without any of the tags.
ShellNames == {"plain", "selfclosed", "oneline", "bare"}

Shell(name) ==
  CASE name = "plain" -> ShellTags(1, FALSE, << LineBreak >>)
    [] name = "selfclosed" -> ShellTags(1, TRUE, << LineBreak >>)
    [] name = "oneline" ->
         << "<TITLE", Gt, "shell", "</TITLE", Gt >>
           \o ShellTag("description", "shell", TRUE)
           \o ShellTag("og:title", "shell", FALSE)
           \o ShellTag("icon", "shell", TRUE)
    [] OTHER -> << "<div id=", Quote, "root", Quote, Gt, "</div", Gt, LineBreak >>

\* The rows the query of inject-seo.js:60-64 can return (key and value only).
BuildRow(key, value) == [key |-> key, value |-> value]

BuildRows ==
  { BuildRow("settings_seo", v) :
      v \in { None,
              Some(<<LBrace, Str("meta_title"), Colon, Str("X"), Comma,
                     Str("og_title"), Colon, Str("Y"), RBrace>>),
              Some(<<LBrace, Str("meta_title"), Colon, Str("$&"), Comma,
                     Str("canonical_url"), Colon, Str("$$"), Comma,
                     Str("og_image_url"), Colon, Str("$'"), RBrace>>),
              Some(<<NullLit>>),
              Some(<<LBrace, Str("meta_title"), Colon>>) } }
  \cup
  { BuildRow("settings_general", v) :
      v \in { Some(<<>>),
              Some(<<LBrace, Str("favicon_url"), Colon, Str("/f.ico"), RBrace>>),
              Some(<<LBrace, Str("favicon_url"), Colon>>) } }

\* What the store answers to the query of the script.
BuildResponses ==
  { [kind |-> "error", data |-> None],
    [kind |-> "throw", data |-> None],
    [kind |-> "data", data |-> None] }
  \cup { [kind |-> "data", data |-> Some(d)] : d \in SeqsUpTo(BuildRows, MaxRows) }

\* The .env file loadEnv reads, inject-seo.js:16-19.
ChosenEnvFile(b) ==
  IF b.envLocalFile.exists THEN b.envLocalFile
  ELSE IF b.envFile.exists THEN b.envFile
  ELSE NoFile

\* The loop of inject-seo.js:26-41 for one variable: the file sets it unless
\* process.env already holds a non-empty value.
EnvAfter(env, file, k) ==
  IF file.vars[k] # None /\ ~TruthyStr(env[k]) THEN file.vars[k] ELSE env[k]

\* The process ends with the given status; index.html is as it was.
ExitWith(b, status) == [b EXCEPT !.pc = "done", !.exit = Some(status)]

\* loadEnv(), inject-seo.js:15-44.  readFileSync is outside every try block:
\* when it throws, the exception is uncaught and node exits with status 1.
loadEnv(b) ==
  LET file == ChosenEnvFile(b) IN
  IF ~file.exists THEN [b EXCEPT !.pc = "credentials"]
  ELSE IF ~file.readable THEN ExitWith(b, 1)
  ELSE [b EXCEPT !.pc = "credentials",
                 !.env = [k \in {"url", "key"} |-> EnvAfter(b.env, file, k)]]

\* Mutant of CheckCredentials: missing credentials end the process with
\* status 1.
CheckCredentials_Fails(b) ==
  IF ~TruthyStr(b.env.url) \/ ~TruthyStr(b.env.key) THEN ExitWith(b, 1)
  ELSE IF b.clientThrows THEN ExitWith(b, 1)
  ELSE [b EXCEPT !.pc = "inject"]

\* The test of inject-seo.js:46-52 and the createClient call of line 54.
\* createClient is outside every try block: when it throws (the library
\* rejects the URL), the exception is uncaught and node exits with status 1.
CheckCredentials(b) ==
  IF ~TruthyStr(b.env.url) \/ ~TruthyStr(b.env.key) THEN ExitWith(b, 0)
  ELSE IF b.clientThrows THEN ExitWith(b, 1)
  ELSE [b EXCEPT !.pc = "inject"]

\* The JavaScript value {}.
EmptyObject == [ok |-> TRUE, kind |-> "object", obj |-> <<>>]

\* The row assigns to the variable of the given key (inject-seo.js:76, 79).
Assigns(row, key) == row.key = key /\ row.value # None /\ row.value[1] # <<>>

\* The loop of inject-seo.js:75-82 for the variable of one key: the parse of
\* the last assigning row, or the first failed parse, at which the loop ends.
RECURSIVE ParsedGroup(_, _, _, _)
ParsedGroup(data, key, i, acc) ==
  IF i > Len(data) THEN acc
  ELSE IF Assigns(data[i], key)
    THEN LET result == JSONParse(data[i].value[1]) IN
         IF result.ok THEN ParsedGroup(data, key, i + 1, result) ELSE result
  ELSE ParsedGroup(data, key, i + 1, acc)

\* JSON.parse throws in the loop of inject-seo.js:75-82.
BuildParseThrows(data) ==
  \E i \in 1..Len(data) : \E key \in {"settings_seo", "settings_general"} :
    Assigns(data[i], key) /\ ~JSONParse(data[i].value[1]).ok

\* v.f for a parsed value v that is not null: undefined (None) when v has no
\* such property.
Prop(v, f) == IF f \in DOMAIN v.obj THEN Some(v.obj[f]) ELSE None

\* a || b for a property and a string.
OrStr(o, b) == IF o # None /\ JsTruthy(o[1]) THEN o[1] ELSE b

\* The string each replacement of inject-seo.js:89-110 interpolates.
Replacement(seo, general, t) ==
  LET title == OrStr(Prop(seo, "meta_title"), "Supermal Karawaci")
      description == OrStr(Prop(seo, "meta_description"), "")
      image == OrStr(Prop(seo, "og_image_url"), "")
  IN CASE t = "title" -> title
       [] t = "description" -> description
       [] t = "canonical" ->
            OrStr(Prop(seo, "canonical_url"), "https://supermalkarawaci.co.id")
       [] t \in {"og:title", "twitter:title"} -> OrStr(Prop(seo, "og_title"), title)
       [] t \in {"og:description", "twitter:description"} ->
            OrStr(Prop(seo, "og_description"), description)
       [] t \in {"og:image", "twitter:image"} -> image
       [] t = "icon" -> OrStr(Prop(general, "favicon_url"), "/vite.svg")

\* The lexemes of the string a replacement interpolates.  A stored string of
\* the model is one lexeme.  Four of them are the patterns that
\* String.prototype.replace expands in a replacement string: "$$", "$&",
\* "$'" and the dollar sign followed by a grave accent, which is spelled
\* "$grave" here because a string of this module cannot hold that character.
Lexemes(s) == IF s = "" THEN <<>> ELSE << s >>

\* The replacement string of tag t for the interpolated string s
\* (inject-seo.js:91-109).
NewTag(t, s) ==
  (IF t = "icon" THEN Opening(t) \o << " href=", Quote >> ELSE Opening(t))
    \o Lexemes(s) \o Closing(t)

\* What replace inserts for the replacement string repl at the match m of
\* text: "$$" is a dollar sign, "$&" the matched text, "$grave" the text
\* before the match, "$'" the text after it (the patterns have no groups, so
\* "$1" and the like are inserted as they are).
RECURSIVE Expand(_, _, _)
Expand(repl, text, m) ==
  IF repl = <<>> THEN <<>>
  ELSE LET x == Head(repl)
           out == CASE x = "$$" -> << "$" >>
                    [] x = "$&" -> SubSeq(text, m.from, m.to)
                    [] x = "$grave" -> SubSeq(text, 1, m.from - 1)
                    [] x = "$'" -> SubSeq(text, m.to + 1, Len(text))
                    [] OTHER -> << x >>
       IN out \o Expand(Tail(repl), text, m)

\* html.replace(pattern, replacement) of inject-seo.js:113 for tag t: the
\* first match of the pattern is replaced by the expanded replacement
\* string; without a match the text is left as it is.
Replace(text, t, s) ==
  LET found == IF t = "icon" THEN IconMatch(text) ELSE LazyMatch(text, t)
  IN IF found = None THEN text
     ELSE LET m == found[1]
          IN SubSeq(text, 1, m.from - 1) \o Expand(NewTag(t, s), text, m)
               \o SubSeq(text, m.to + 1, Len(text))

\* The loop of inject-seo.js:112-114 from the k-th replacement on.
RECURSIVE ReplaceAll(_, _, _, _)
ReplaceAll(text, seo, general, k) ==
  IF k > Len(TagNames) THEN text
  ELSE ReplaceAll(Replace(text, TagNames[k], Replacement(seo, general, TagNames[k])),
                  seo, general, k + 1)

\* The body of injectSEO from the answer of the query on, inject-seo.js:66-125.
\* Every exception is caught at line 122 and ends the process with status 0:
\* a rejected query, JSON.parse, readFileSync, the property access on a
\* stored null while the replacements are built, and writeFileSync, which
\* fails on a file that cannot be opened for writing and then leaves it as
\* it was.  After the write the process ends on its own, with status 0.
injectSEO(b, resp) ==
  LET data == IF resp.data = None THEN <<>> ELSE resp.data[1]
      seo == ParsedGroup(data, "settings_seo", 1, EmptyObject)
      general == ParsedGroup(data, "settings_general", 1, EmptyObject)
      answered == [b EXCEPT !.resp = Some(resp)]
  IN IF resp.kind \in {"throw", "error"} THEN ExitWith(answered, 0)
     ELSE IF BuildParseThrows(data) THEN ExitWith(answered, 0)
     ELSE IF b.index = "unreadable" THEN ExitWith(answered, 0)
     ELSE IF seo.kind = "null" \/ general.kind = "null" THEN ExitWith(answered, 0)
     ELSE IF b.index = "readonly" THEN ExitWith(answered, 0)
     ELSE [answered EXCEPT !.pc = "done", !.exit = Some(0), !.written = TRUE,
                           !.html = ReplaceAll(b.html, seo, general, 1)]

LoadEnv ==
  /\ build.pc = "loadEnv"
  /\ build' = loadEnv(build)
  /\ UNCHANGED << loaderVars, parserVars, domVars, helmetVars >>

CredentialsChecked ==
  /\ build.pc = "credentials"
  /\ build' = CheckCredentials(build)
  /\ UNCHANGED << loaderVars, parserVars, domVars, helmetVars >>

\* injectSEO() is called and awaits the query, inject-seo.js:128 and 56-64.
QuerySent ==
  /\ build.pc = "inject"
  /\ build' = [build EXCEPT !.pc = "awaiting"]
  /\ UNCHANGED << loaderVars, parserVars, domVars, helmetVars >>

QueryAnswered(resp) ==
  /\ build.pc = "awaiting"
  /\ build' = injectSEO(build, resp)
  /\ UNCHANGED << loaderVars, parserVars, domVars, helmetVars >>

\* How the process finds index.html: readable and writable, not readable, or
\* readable but not writable.
IndexFiles == {"ok", "unreadable", "readonly"}

\* The process starts: any combination of the two .env files and of
\* process.env, a createClient that accepts the URL or throws, and index.html
\* as shipped in one of its forms.
InitBuild ==
  /\ \E local \in EnvFiles, env \in EnvFiles, preset \in PresetEnvs,
        throws \in BOOLEAN, index \in IndexFiles, name \in ShellNames :
       build = [ pc |-> "loadEnv", env |-> preset, envLocalFile |-> local,
                 envFile |-> env, clientThrows |-> throws, index |-> index,
                 shell |-> name, resp |-> None, exit |-> None,
                 html |-> Shell(name), written |-> FALSE ]
  /\ settingsCache = None
  /\ pendingRequest = None
  /\ requests = <<>>
  /\ ncalls = 0
  /\ lastCall = None
  /\ now = 0
  /\ settings = None
  /\ isLoading = TRUE
  /\ error = None
  /\ mounted = FALSE
  /\ clears = 0
  /\ ticks = 0
  /\ clearedSinceCall = FALSE
  /\ lastSettled = None
  /\ continuations = <<>>
  /\ rows = <<>>
  /\ parsed = None
  /\ threw = FALSE
  /\ head = <<>>
  /\ body = <<>>
  /\ consumers = [i \in Instances |-> FreshConsumer]
  /\ domSteps = 0
  /\ treeOrder = <<"A1", "A2", "S1", "S2">>
  /\ fbq = FALSE
  /\ context = FirstContext
  /\ pathname = "/"
  /\ pageMeta = NoPageMeta
  /\ rendered = None

NextBuild ==
  \/ LoadEnv
  \/ CredentialsChecked
  \/ QuerySent
  \/ \E resp \in BuildResponses : QueryAnswered(resp)

SpecBuild == InitBuild /\ [][NextBuild]_vars

----------------------------------------------------------------------------
(* Properties of the loader and the provider, checked under Spec.          *)

\* The step is a call of fetchAllSiteSettings that no clearSettingsCache
\* precedes within the same task.
IsCallStep == ncalls' = ncalls + 1 /\ clears' = clears

\* The requests whose query has not been answered yet.
InFlight == { r \in 1..Len(requests) : requests[r].state = "inflight" }

\* C1: calls made while the cache is empty or expired and before the first
\* of them resolves share one network query and one promise: such a call
\* issues no query and joins the request of every earlier call that is still
\* unresolved.  Only calls with no clearSettingsCache between them are
\* compared.
C1_ConcurrentCallsShareOneQuery ==
  [][ (IsCallStep /\ lastCall'[1].src = "request")
        => \A q \in 1..Len(requests) :
             (requests[q].state = "inflight" /\ requests[q].epoch = clears)
               => /\ lastCall'[1].req = q
                  /\ Len(requests') = Len(requests) ]_vars

\* C2: in every reachable state at most one network query is outstanding.
C2_AtMostOneOutstanding == Cardinality(InFlight) <= 1

\* C3: a call made while the cached bundle is younger than 5 minutes issues
\* no query and returns the cached bundle; a call made when the cached bundle
\* is 5 minutes old or older, with no request in flight, issues exactly one:
\* it starts one new request and returns the promise of that request.
C3_TTL ==
  [][ IsCallStep =>
        /\ (settingsCache # None /\ now - settingsCache[1].timestamp < 300000)
             => /\ requests' = requests
                /\ lastCall' = Some(CallRec("cache", 0, Some(settingsCache[1].data)))
        /\ (settingsCache # None /\ now - settingsCache[1].timestamp >= 300000
              /\ InFlight = {})
             => /\ Len(requests') = Len(requests) + 1
                /\ lastCall'[1].req = Len(requests') ]_vars

\* C4: the first call after clearSettingsCache issues a network query.
C4_CallAfterClearQueries ==
  [][ (clearedSinceCall /\ ncalls' = ncalls + 1)
        => Len(requests') = Len(requests) + 1 ]_vars

\* The outcomes of a query that count as a failure.
FailureOutcomes == {"error", "throw", "parse_throw"}

\* C5: no promise of fetchAllSiteSettings is ever rejected, and one whose
\* query failed (error result, exception, exception while parsing the rows)
\* is fulfilled with the five default groups and four empty sequences.
C5_NeverRejects ==
  /\ \A r \in 1..Len(requests) :
       /\ requests[r].state \in {"inflight", "fulfilled"}
       /\ requests[r].state = "fulfilled" => requests[r].value # None
  /\ (lastSettled # None /\ lastSettled[1].outcome \in FailureOutcomes)
       => LET q == requests[lastSettled[1].req] IN
          /\ q.state = "fulfilled"
          /\ q.value[1].seo = DEFAULT_SEO
          /\ q.value[1].analytics = DEFAULT_ANALYTICS
          /\ q.value[1].general = DEFAULT_GENERAL
          /\ q.value[1].contact = DEFAULT_CONTACT
          /\ q.value[1].social = DEFAULT_SOCIAL
          /\ \A p \in InjectionPoints : q.value[1].scripts[p] = <<>>

\* Witness of C5: after two failed queries a third one was answered by rows
\* on which the parser throws; all three promises are fulfilled.
C5_Witness ==
  /\ Len(requests) = 3
  /\ \A r \in 1..3 : requests[r].state = "fulfilled"
                       /\ requests[r].value = Some(getDefaultSettings)
  /\ settingsCache = None
  /\ lastSettled = Some([req |-> 3, outcome |-> "parse_throw"])

\* C6: a failed query leaves the cache slot unchanged, and the next call
\* after the failure has settled issues a new network query.
C6_FailureNotCached ==
  [][ /\ (\E r \in 1..Len(requests) :
            /\ requests[r].state = "inflight" /\ requests'[r].state # "inflight"
            /\ lastSettled'[1].outcome \in FailureOutcomes)
         => settingsCache' = settingsCache
      /\ (/\ lastSettled # None /\ lastSettled[1].outcome \in FailureOutcomes
          /\ ncalls' = ncalls + 1)
         => Len(requests') = Len(requests) + 1 ]_vars

\* The names of the fields of a custom script entity, settings.ts:63-71.
ScriptFields ==
  {"id", "key", "display_name", "value", "setting_type", "injection_point",
   "sort_order"}

\* A bundle with all five groups, every field of each group, and all four
\* script sequences of complete entities.
CompleteBundle(b) ==
  /\ DOMAIN b = Groups \cup {"scripts"}
  /\ \A g \in Groups : DOMAIN DefaultOf(g) \subseteq DOMAIN b[g]
  /\ DOMAIN b.scripts = InjectionPoints
  /\ \A p \in InjectionPoints : \A j \in 1..Len(b.scripts[p]) :
       DOMAIN b.scripts[p][j] = ScriptFields

\* C7: the bundle the provider shows is null or complete.
C7_VisibleBundleComplete == settings = None \/ CompleteBundle(settings[1])

\* Witness of C7: the provider shows a bundle parsed from stored rows, with a
\* merged group and a custom script.
C7_Witness ==
  /\ settings # None /\ ~isLoading
  /\ settings[1].seo.meta_title = "X"
  /\ Len(settings[1].scripts.body_end) = 1

----------------------------------------------------------------------------
(* Properties of the row parser, checked under SpecParser.                 *)

\* The input without its i-th row.
RemoveAt(data, i) == SubSeq(data, 1, i - 1) \o SubSeq(data, i + 1, Len(data))

\* Row i carries reserved key k.
HasKey(data, i, k) == data[i].key = Some(k)

\* No row after row i carries the key of row i.
LastOfItsKey(data, i) ==
  \A j \in (i + 1)..Len(data) : data[j].key # data[i].key

\* The text is a JSON object in which member f occurs.
Defines(text, f) ==
  \E n \in 1..(Len(text) - 2) : text[n] = Str(f) /\ text[n + 1] = Colon

\* The value the text gives to member f: the one of its last occurrence.
StoredValue(text, f) ==
  LET n == CHOOSE m \in 1..(Len(text) - 2) :
             /\ text[m] = Str(f) /\ text[m + 1] = Colon
             /\ \A q \in (m + 1)..(Len(text) - 2) :
                  ~(text[q] = Str(f) /\ text[q + 1] = Colon)
  IN IF text[n + 2] = NullLit THEN JsNull ELSE text[n + 2].v

\* Row i is a reserved row whose value is a JSON object over fields of its group.
IsObjectRow(data, i, k) ==
  /\ HasKey(data, i, k)
  /\ data[i].value # None
  /\ data[i].value[1] \in ObjectTexts(GroupOf(k))

\* The group of key k is the merge of row i over the group's default.
MergedOverDefault(bundle, data, i, k) ==
  \A f \in DOMAIN DefaultOf(GroupOf(k)) :
    bundle[GroupOf(k)][f] =
      IF Defines(data[i].value[1], f)
        THEN StoredValue(data[i].value[1], f)
        ELSE DefaultOf(GroupOf(k))[f]

\* C8 as stated: for every reserved key and every stored JSON object that
\* defines a subset of the group's fields, the parsed group has the stored
\* value of each defined field and the default of every other field.
C8_MergeOverDefault_Original ==
  parsed # None =>
    \A i \in 1..Len(rows) : \A k \in ReservedKeys :
      IsObjectRow(rows, i, k) => MergedOverDefault(parsed[1], rows, i, k)

\* C8 amended: the same, for the last row that carries the reserved key.
C8_MergeOverDefault ==
  parsed # None =>
    \A i \in 1..Len(rows) : \A k \in ReservedKeys :
      (IsObjectRow(rows, i, k) /\ LastOfItsKey(rows, i))
        => MergedOverDefault(parsed[1], rows, i, k)

\* Witness of C8: a stored object that defines one field with a non-empty
\* default and one with an empty default was parsed; the group holds the two
\* stored values and defaults elsewhere.
C8_Witness ==
  /\ parsed # None
  /\ \E i \in 1..Len(rows) :
       /\ IsObjectRow(rows, i, "settings_seo") /\ LastOfItsKey(rows, i)
       /\ Defines(rows[i].value[1], "meta_title")
       /\ Defines(rows[i].value[1], "og_title")
  /\ parsed[1].seo.meta_title = "X"
  /\ parsed[1].seo.og_title = "Y"
  /\ parsed[1].seo.robots = "index, follow"

\* Row i is a reserved row whose value is not valid JSON.
IsCorruptRow(data, i, k) ==
  /\ HasKey(data, i, k)
  /\ data[i].value # None
  /\ data[i].value[1] \in CorruptTexts(GroupOf(k))

\* Apart from the group of key k, the bundle is the one parsed from the
\* input without row i.
OthersAsIfAbsent(bundle, data, i, k) ==
  LET without == parseSettingsFromData(RemoveAt(data, i)) IN
  /\ \A g \in Groups \ {GroupOf(k)} : bundle[g] = without[g]
  /\ bundle.scripts = without.scripts

\* C9 as stated: if the value of a reserved row is not valid JSON, its group
\* equals the default and everything else is as if the row were absent.
C9_MalformedIsolation_Original ==
  parsed # None =>
    \A i \in 1..Len(rows) : \A k \in ReservedKeys :
      IsCorruptRow(rows, i, k)
        => /\ parsed[1][GroupOf(k)] = DefaultOf(GroupOf(k))
           /\ OthersAsIfAbsent(parsed[1], rows, i, k)

\* C9 amended: the same, when no later row carries the same reserved key.
C9_MalformedIsolation ==
  parsed # None =>
    \A i \in 1..Len(rows) : \A k \in ReservedKeys :
      (IsCorruptRow(rows, i, k) /\ LastOfItsKey(rows, i))
        => /\ parsed[1][GroupOf(k)] = DefaultOf(GroupOf(k))
           /\ OthersAsIfAbsent(parsed[1], rows, i, k)

\* Witness of C9: a corrupt analytics row was parsed next to a valid seo row;
\* analytics is the default and seo shows the stored title.
C9_Witness ==
  /\ parsed # None
  /\ \E i \in 1..Len(rows) :
       /\ IsCorruptRow(rows, i, "settings_analytics")
  /\ parsed[1].analytics = DEFAULT_ANALYTICS
  /\ parsed[1].seo.meta_title = "X"

\* Entry e of a script sequence was built from row r.
BuiltFrom(e, r) ==
  /\ e.key = r.key[1]
  /\ e.value = r.value[1]
  /\ e.setting_type = r.setting_type[1]
  /\ e.injection_point = r.injection_point[1]

\* Row i has a valid injection point, a kind tag and a non-empty value.
IsRoutable(data, i) ==
  /\ data[i].injection_point # None
  /\ data[i].injection_point[1] \in InjectionPoints
  /\ data[i].setting_type # None /\ data[i].setting_type[1] # ""
  /\ data[i].value # None /\ data[i].value[1] # <<>>

\* Row i is in the sequence of its injection point and in no other one.
RoutedToItsPoint(bundle, data, i) ==
  \A p \in InjectionPoints :
    (\E j \in 1..Len(bundle.scripts[p]) : BuiltFrom(bundle.scripts[p][j], data[i]))
      <=> p = data[i].injection_point[1]

\* Row i has no injection point.
HasNoInjectionPoint(data, i) ==
  data[i].injection_point = None \/ data[i].injection_point[1] = ""

\* C10 as stated: a row with a valid injection point P, a kind tag and a
\* non-empty value is in scripts[P] and in no other sequence; a row with no
\* injection point is in none (the sequences are those of the input without it).
C10_ScriptRouting_Original ==
  parsed # None =>
    \A i \in 1..Len(rows) :
      /\ IsRoutable(rows, i) => RoutedToItsPoint(parsed[1], rows, i)
      /\ HasNoInjectionPoint(rows, i)
           => parsed[1].scripts = parseSettingsFromData(RemoveAt(rows, i)).scripts

\* C10 amended: the same, for rows whose key does not begin with "settings_".
C10_ScriptRouting ==
  parsed # None =>
    \A i \in 1..Len(rows) :
      /\ (IsRoutable(rows, i) /\ ~StartsWithSettings(rows[i].key[1]))
           => RoutedToItsPoint(parsed[1], rows, i)
      /\ HasNoInjectionPoint(rows, i)
           => parsed[1].scripts = parseSettingsFromData(RemoveAt(rows, i)).scripts

\* Witness of C10: a head_start script and a row without injection point
\* were parsed; only head_start is non-empty.
C10_Witness ==
  /\ parsed # None /\ Len(rows) = 2
  /\ \E i \in 1..2 : IsRoutable(rows, i) /\ rows[i].key = Some("gtm")
                      /\ rows[i].injection_point = Some("head_start")
  /\ \E i \in 1..2 : rows[i].key = Some("gtm") /\ rows[i].injection_point = None
                      /\ rows[i].setting_type # None /\ rows[i].value = Payload
  /\ Len(parsed[1].scripts.head_start) = 1
  /\ \A p \in InjectionPoints \ {"head_start"} : parsed[1].scripts[p] = <<>>

\* f maps the positions of a script sequence to row numbers, in increasing
\* order, each entry to a row it was built from.
IsOrderEmbedding(f, seq, data) ==
  /\ \A a \in 1..Len(seq) : IsRoutable(data, f[a]) /\ BuiltFrom(seq[a], data[f[a]])
  /\ \A a, b \in 1..Len(seq) : a < b => f[a] < f[b]

\* C11: within each of the four script sequences the entries are in the
\* relative order of their rows in the input, whatever their sort_order.
C11_StableOrder ==
  parsed # None =>
    \A p \in InjectionPoints :
      \E f \in [1..Len(parsed[1].scripts[p]) -> 1..Len(rows)] :
        IsOrderEmbedding(f, parsed[1].scripts[p], rows)

\* Witness of C11: two scripts of one injection point were parsed, the one
\* with the larger sort_order first in the input and first in the sequence.
C11_Witness ==
  /\ parsed # None /\ Len(rows) = 2
  /\ rows[1].key = Some("ga") /\ rows[2].key = Some("gtm")
  /\ Len(parsed[1].scripts.body_end) = 2
  /\ parsed[1].scripts.body_end[1].key = "ga"
  /\ parsed[1].scripts.body_end[2].key = "gtm"
  /\ parsed[1].scripts.body_end[1].sort_order > parsed[1].scripts.body_end[2].sort_order

\* Row i has a non-reserved key, an injection point, a kind tag and a
\* non-empty value.
IsScriptCandidate(data, i) ==
  /\ data[i].key[1] \notin ReservedKeys
  /\ data[i].injection_point # None /\ data[i].injection_point[1] # ""
  /\ data[i].setting_type # None /\ data[i].setting_type[1] # ""
  /\ data[i].value # None /\ data[i].value[1] # <<>>

\* Processing row i appends one entity built from it to the sequence of its
\* injection point, and the entity stays there, at that position.
AppendedToItsSequence(bundle, data, i) ==
  /\ data[i].injection_point[1] \in InjectionPoints
  /\ LET p == data[i].injection_point[1]
         before == parseSettingsFromData(SubSeq(data, 1, i - 1)).scripts[p]
         after == parseSettingsFromData(SubSeq(data, 1, i)).scripts[p]
     IN /\ Len(after) = Len(before) + 1
        /\ SubSeq(after, 1, Len(before)) = before
        /\ BuiltFrom(after[Len(after)], data[i])
        /\ after[Len(after)].id = OrElseStr(data[i].id, data[i].key[1])
        /\ Len(bundle.scripts[p]) >= Len(after)
        /\ SubSeq(bundle.scripts[p], 1, Len(after)) = after

\* C20 as stated: every row whose key is not one of the five reserved keys
\* and that has an injection point, a kind tag and a non-empty value becomes
\* a custom script entity appended to the sequence of its injection point.
C20_ScriptAppended_Original ==
  parsed # None =>
    \A i \in 1..Len(rows) :
      IsScriptCandidate(rows, i) => AppendedToItsSequence(parsed[1], rows, i)

\* C20 amended: the same, for rows whose key does not begin with "settings_"
\* and whose injection point is one of the four known ones.
C20_ScriptAppended ==
  parsed # None =>
    \A i \in 1..Len(rows) :
      (/\ IsScriptCandidate(rows, i)
       /\ ~StartsWithSettings(rows[i].key[1])
       /\ rows[i].injection_point[1] \in InjectionPoints)
        => AppendedToItsSequence(parsed[1], rows, i)

\* Witness of C20: two script rows of one injection point were parsed, the
\* second one, which has its own id, is the last entity of the sequence.
C20_Witness ==
  /\ parsed # None /\ Len(rows) = 2
  /\ rows[1].key = Some("gtm") /\ rows[2].key = Some("ga")
  /\ IsScriptCandidate(rows, 1) /\ IsScriptCandidate(rows, 2)
  /\ rows[1].injection_point = Some("body_end")
  /\ Len(parsed[1].scripts.body_end) = 2
  /\ parsed[1].scripts.body_end[1].id = "gtm"
  /\ parsed[1].scripts.body_end[2].id = "7"

----------------------------------------------------------------------------
(* Properties of the injection consumers, checked under SpecDom.           *)

\* The number of occurrences of node n in a child list.
Count(seq, n) == Cardinality({ j \in 1..Len(seq) : seq[j] = n })

\* The step adds no node to the document.
NoNodeCreated ==
  \A n \in Range(head') \cup Range(body') :
    Count(head', n) + Count(body', n) <= Count(head, n) + Count(body, n)

\* C12: while the provider reports loading or the bundle is null (the
\* context value of its last render, which is what the consumers read), no
\* step adds a node to the document, no consumer holds a node it injected,
\* and SEOInjector hands no custom script to Helmet.
C12_NothingWhileLoading ==
  [][ (context'.isLoading \/ context'.settings = None)
        => /\ NoNodeCreated
           /\ \A i \in Instances :
                consumers'[i].tracked = <<>> /\ consumers'[i].headElements = <<>>
           /\ HelmetScripts(context'.settings, context'.isLoading) = <<>> ]_vars

\* Witness of C12: a bundle with analytics ids and custom scripts is shown,
\* an Analytics and an SEOInjector instance are mounted, a refresh has set
\* isLoading and the provider has rendered, the query of the refresh being
\* in flight: none of their script elements is in the document.
C12_Witness ==
  /\ context.isLoading /\ context.settings = Some(parseSettingsFromData(RowsDomFull))
  /\ consumers["A1"].mounted /\ consumers["S1"].mounted
  /\ Len(requests) = 2 /\ requests[2].state = "inflight"
  /\ Finds(head, body, "src", "gtm.js")
  /\ ~Finds(head, body, "id", "gtm-init")
  /\ ~Finds(head, body, "data-seo-setting", "bs")
  /\ ~Finds(head, body, "data-head-setting", "hm")

\* Two nodes are the same child of the same script or analytics element,
\* whoever created them.
SameChild(n, m) ==
  n.tag = m.tag /\ n.attr = m.attr /\ n.key = m.key /\ n.idx = m.idx

\* C13: however often the effects of the consumers run, the document never
\* holds the same node of a configured script key or analytics element id
\* twice.
C13_NoDuplicateNodes ==
  LET all == head \o body IN
  \A a, b \in 1..Len(all) : a # b => ~SameChild(all[a], all[b])

\* C14: when a consumer instance is torn down, no node it created stays in
\* the document and the nodes of the other instances stay as they are.
C14_ScopedCleanup ==
  [][ \A i \in Instances :
        (consumers[i].mounted /\ ~consumers'[i].mounted)
          => /\ \A n \in Range(head') \cup Range(body') : n.by # i
             /\ SelectSeq(head', LAMBDA n : n.by # i)
                  = SelectSeq(head, LAMBDA n : n.by # i)
             /\ SelectSeq(body', LAMBDA n : n.by # i)
                  = SelectSeq(body, LAMBDA n : n.by # i) ]_vars

\* The new list is the old one with nodes added in front of it.
PrependedTo(old, new) ==
  Len(new) > Len(old) /\ SubSeq(new, Len(new) - Len(old) + 1, Len(new)) = old

\* The new list is the old one with nodes added behind it.
AppendedTo(old, new) ==
  Len(new) > Len(old) /\ SubSeq(new, 1, Len(old)) = old

\* C15: in every reachable document, a script of the shown bundle that
\* SEOInjector injects goes into the head for head_* and into the body for
\* body_*, in front of the children of its container for *_start and behind
\* them for *_end.
C15_Placement ==
  context.settings # None =>
    \A p \in InjectionPoints : \A j \in 1..Len(context.settings[1].scripts[p]) :
      LET st == [head |-> head, body |-> body, fbq |-> fbq, made |-> <<>>]
          r == InjectOne(st, context.settings[1].scripts[p][j], p, "S1")
      IN r # st =>
           /\ p \in {"head_start", "head_end"} => r.body = body
           /\ p \in {"body_start", "body_end"} => r.head = head
           /\ p = "head_start" => PrependedTo(head, r.head)
           /\ p = "head_end" => AppendedTo(head, r.head)
           /\ p = "body_start" => PrependedTo(body, r.body)
           /\ p = "body_end" => AppendedTo(body, r.body)

\* The element ids of the nodes of an analytics provider, Analytics.tsx:55-178.
ProviderElements(f) ==
  CASE f = "google_analytics_id" -> {"ga4-loader", "ga4-init"}
    [] f = "google_tag_manager_id" -> {"gtm-init", "gtm-noscript"}
    [] f = "meta_pixel_id" -> {"meta-pixel", "meta-pixel-noscript"}
    [] f = "tiktok_pixel_id" -> {"tiktok-pixel"}
    [] f = "hotjar_id" -> {"hotjar"}

\* The libraries whose script element the snippet of an analytics provider
\* creates, Analytics.tsx:86-90, 117-124, 152, 168-174.
ProviderLibraries(f) ==
  CASE f = "google_analytics_id" -> {}
    [] f = "google_tag_manager_id" -> {"gtm.js"}
    [] f = "meta_pixel_id" -> {"fbevents.js"}
    [] f = "tiktok_pixel_id" -> {"events.js"}
    [] f = "hotjar_id" -> {"hotjar.js"}

\* C17: when a bundle is shown, no load is reported and an Analytics
\* instance is mounted (so it has processed that bundle), a provider whose
\* identifier is the empty string has no node in the document: none of its
\* elements with an id and no script element of its library.
C17_DisabledProviderHasNoNode ==
  (/\ ~context.isLoading /\ context.settings # None
   /\ \E i \in Instances : KindOf(i) = "analytics" /\ consumers[i].mounted)
    => \A f \in DOMAIN DEFAULT_ANALYTICS :
         context.settings[1].analytics[f] = ""
           => /\ \A id \in ProviderElements(f) : ~Finds(head, body, "id", id)
              /\ \A src \in ProviderLibraries(f) : ~Finds(head, body, "src", src)

----------------------------------------------------------------------------
(* Properties of the Helmet render, checked under SpecHelmet.              *)

\* The tags that SEOInjector renders on the home view only.
HomeOnlyNames ==
  { "og:type", "og:site_name", "og:locale", "og:title", "og:description",
    "og:url", "og:image", "twitter:card", "twitter:title",
    "twitter:description", "twitter:site", "twitter:creator", "twitter:image" }

\* What the page supplies for a tag through the pageMeta prop.
PageSupplied(name) ==
  CASE name = "title" -> pageMeta.title
    [] name = "description" -> pageMeta.description
    [] name = "canonical" -> pageMeta.canonical
    [] name = "keywords" -> JoinKeywords(pageMeta.keywords)

\* C16: on a view whose path is not "/", the render has no Open Graph and no
\* Twitter tag, and a title, description, keywords or canonical tag only
\* with the non-empty value the page supplies.
C16_HomeOnlyMetadata ==
  (rendered # None /\ pathname # "/")
    => \A j \in 1..Len(rendered[1]) :
         LET t == rendered[1][j] IN
         /\ t.name \notin HomeOnlyNames
         /\ t.name \in {"title", "description", "canonical", "keywords"}
              => /\ TruthyStr(PageSupplied(t.name))
                 /\ t.content = PageSupplied(t.name)[1]

\* Witness of C16: a non-root view was rendered with a page title while the
\* loaded bundle stores backend values; the title tag is the page's and no
\* description tag exists.
C16_Witness ==
  /\ rendered # None /\ pathname = "/about"
  /\ ~isLoading /\ settings = Some(parseSettingsFromData(RowsHelmet))
  /\ pageMeta.title = Some("P-title") /\ pageMeta.description = None
  /\ \E j \in 1..Len(rendered[1]) : rendered[1][j] = Tag("title", "P-title")
  /\ \A j \in 1..Len(rendered[1]) : rendered[1][j].name # "description"

----------------------------------------------------------------------------
(* Degradation on failure and the error state, checked under Spec.        *)

\* The loadSettings call that awaited request r has ended.
LoadEnded(r) ==
  /\ requests[r].provider
  /\ \A k \in 1..Len(continuations) : continuations[k].req # r

\* C18: when the query of a load of the provider has failed and the load
\* has ended, the provider shows isLoading false and the all-defaults
\* bundle, and the effect of Analytics creates no node for that bundle.
C18_FailureDegradesToDefaults ==
  (/\ lastSettled # None /\ lastSettled[1].outcome \in FailureOutcomes
   /\ LoadEnded(lastSettled[1].req))
    => /\ ~isLoading
       /\ settings = Some(getDefaultSettings)
       /\ LET empty == [head |-> <<>>, body |-> <<>>, fbq |-> FALSE, made |-> <<>>]
          IN InjectAnalytics(empty, settings[1].analytics, "A1") = empty

\* Witness of C18: the client threw during the query of a load of the
\* provider; the load has ended with the defaults.
C18_Witness ==
  /\ lastSettled # None /\ lastSettled[1].outcome = "throw"
  /\ LoadEnded(lastSettled[1].req)
  /\ ~isLoading /\ settings = Some(getDefaultSettings)

\* C19: the provider's error state is never set: error is null in every
\* reachable state, also after failed network queries.
C19_ErrorNeverSet == error = None

\* Witness of C19: the query of a load of the provider returned an error
\* result; the load has ended and error is still null.
C19_Witness ==
  /\ lastSettled # None /\ lastSettled[1].outcome = "error"
  /\ requests[lastSettled[1].req].provider
  /\ continuations = <<>>
  /\ ~isLoading /\ settings # None
  /\ error = None

----------------------------------------------------------------------------
(* Reserved rows without a payload, checked under SpecParser.              *)

\* The bundle the loop holds after its first n iterations.
BundleAfter(data, n) == ParseLoop(getDefaultSettings, SubSeq(data, 1, n), 1)

\* Row i carries a reserved key and a missing or empty value.
IsEmptyReservedRow(data, i) ==
  /\ data[i].key # None /\ data[i].key[1] \in ReservedKeys
  /\ (data[i].value = None \/ data[i].value[1] = <<>>)

\* An earlier row with the key of row i stored an object with a field set.
EarlierSupplied(data, i) ==
  \E j \in 1..(i - 1) :
    /\ data[j].key = data[i].key
    /\ BundleAfter(data, j)[GroupOf(data[i].key[1])]
         # DefaultOf(GroupOf(data[i].key[1]))

\* C21 as stated: a row with a reserved key and a missing or empty value is
\* dropped, the bundle after processing it equals the bundle before it, also
\* when an earlier row with the same key had supplied values for the group.
C21_EmptyReservedDropped_Original ==
  parsed # None =>
    \A i \in 1..Len(rows) :
      IsEmptyReservedRow(rows, i)
        => BundleAfter(rows, i) = BundleAfter(rows, i - 1)

\* C21 amended: a row with a reserved key and a missing or empty value sets
\* its group to the group's default and leaves every other group and every
\* script sequence as they were; the bundle is unchanged exactly when its
\* group held the default before.
C21_EmptyReservedDropped ==
  parsed # None =>
    \A i \in 1..Len(rows) :
      IsEmptyReservedRow(rows, i)
        => LET g == GroupOf(rows[i].key[1]) IN
           /\ BundleAfter(rows, i) =
                [BundleAfter(rows, i - 1) EXCEPT ![g] = DefaultOf(g)]
           /\ (BundleAfter(rows, i) = BundleAfter(rows, i - 1))
                <=> (BundleAfter(rows, i - 1)[g] = DefaultOf(g))

\* Witness of C21: a seo row that stored a title is followed by a seo row
\* without a value, and the parsed seo group is the default again.
C21_Witness ==
  /\ parsed # None
  /\ Len(rows) = 2
  /\ IsEmptyReservedRow(rows, 2) /\ rows[2].key = Some("settings_seo")
  /\ EarlierSupplied(rows, 2)
  /\ BundleAfter(rows, 1).seo.meta_title = "X"
  /\ parsed[1].seo = DEFAULT_SEO

\* Value v of field f of group g is a string that some row of the group's
\* key stores for that field.
IsValidStored(data, g, f, v) ==
  /\ v # JsNull
  /\ \E i \in 1..Len(data) :
       /\ data[i].key # None /\ data[i].key[1] \in ReservedKeys
       /\ GroupOf(data[i].key[1]) = g
       /\ data[i].value # None
       /\ Defines(data[i].value[1], f)
       /\ StoredValue(data[i].value[1], f) = v

\* C22: every field of every settings group of a parsed bundle holds either
\* a valid stored value or the field's default; a field that the stored JSON
\* sets to null falls back to the default instead of overriding it.
C22_FieldsValidOrDefault ==
  parsed # None =>
    \A g \in Groups : \A f \in DOMAIN DefaultOf(g) :
      \/ parsed[1][g][f] = DefaultOf(g)[f]
      \/ IsValidStored(rows, g, f, parsed[1][g][f])

----------------------------------------------------------------------------
(* Overlapping requests and loads, checked under Spec.                     *)

\* Request r settles in this step.
Settles(r) ==
  /\ r \in 1..Len(requests)
  /\ requests[r].state = "inflight" /\ requests'[r].state # "inflight"

\* Request r was in flight when a refresh (clearSettingsCache followed by
\* fetchAllSiteSettings) started a later request.
Superseded(r) ==
  \E q \in (r + 1)..Len(requests) : requests[q].epoch > requests[r].epoch

\* C23: when a refresh happens while an earlier request is in flight, the
\* earlier request's result never overwrites the cache slot, so that after
\* both have settled the slot holds the bundle of the refresh's request.
C23_RefreshWins ==
  [][ \A r \in 1..Len(requests) :
        (Settles(r) /\ Superseded(r)) => settingsCache' = settingsCache ]_vars

\* The loadSettings call suspended at position k resumes in this step.
Resumes(k) ==
  /\ Len(continuations') < Len(continuations)
  /\ k = FirstReady

\* A load of the provider that was initiated after the suspended load c has
\* already ended: it awaited a request created later (every refreshSettings
\* creates a request, and the mount effect creates one, joins the one in
\* flight or is served the cached object of one), and its continuation has
\* run.
LaterLoadEnded(c) ==
  \E q \in (c.req + 1)..Len(requests) :
    /\ ProviderAwaits(q)
    /\ \A k \in 1..Len(continuations) : continuations[k].req # q

\* C24: when provider loads overlap, a load that was initiated earlier and
\* resolves later never replaces the bundle of a load initiated after it, so
\* that after all have settled the visible bundle is the one of the most
\* recently initiated load.
C24_LatestLoadWins ==
  [][ \A k \in 1..Len(continuations) :
        (Resumes(k) /\ LaterLoadEnded(continuations[k]))
          => settings' = settings ]_vars

\* Some load of the provider has not settled: its loadSettings call is
\* still suspended at the await.
ProviderLoadOutstanding == continuations # <<>>

\* C25: isLoading is true in every state in which a load the provider
\* started has not yet settled, also when two loads overlap.
C25_LoadingWhileOutstanding ==
  (mounted /\ ProviderLoadOutstanding) => isLoading

----------------------------------------------------------------------------
(* Termination of the loader, checked under SpecLive.                      *)

\* Request r exists and is in the given state.
RequestIs(r, state) == r <= Len(requests) /\ requests[r].state = state

\* C26: if every network query eventually completes, every call of
\* fetchAllSiteSettings eventually resolves with a bundle and the pending
\* slot is eventually empty, under any interleaving with clearSettingsCache.
C26_EveryCallResolves ==
  /\ \A r \in 1..MaxLiveCalls :
       RequestIs(r, "inflight")
         ~> (RequestIs(r, "fulfilled") /\ requests[r].value # None)
  /\ (pendingRequest # None) ~> (pendingRequest = None)

----------------------------------------------------------------------------
(* Several SEO writers on one document, checked under SpecDom.             *)

\* The attribute by which the SEO writer looks up the node of a script of
\* the given injection point (SEOInjector.tsx:274 and 339).
MarkerOf(point) ==
  IF point \in {"head_start", "head_end"} THEN "data-head-setting"
  ELSE "data-seo-setting"

\* The SEO writer creates a node for the script at the given point: the
\* value is non-empty and the kind is one of those its effect handles
\* (SEOInjector.tsx:270, 281-298 and 336, 343).
SeoHandles(script, point) ==
  /\ script.value # <<>>
  /\ IF point \in {"head_start", "head_end"}
       THEN script.setting_type \in {"meta_tag", "custom_html"}
       ELSE script.setting_type \in {"script", "custom_html"}

\* Instance i is unmounted in this step.
IsUnmountOf(i) == consumers[i].mounted /\ ~consumers'[i].mounted

\* C27: while an SEO writer stays mounted on a loaded bundle, the unmount of
\* another instance never removes the only node of a script the writer
\* handles: every such script that had a node keeps one.
C27_UnmountKeepsSharedNodes ==
  [][ \A i, j \in {"S1", "S2"} :
        (/\ i # j /\ IsUnmountOf(i)
         /\ consumers[j].mounted /\ consumers'[j].mounted
         /\ ~context.isLoading /\ context.settings # None)
        => \A point \in InjectionPoints :
             \A n \in 1..Len(context.settings[1].scripts[point]) :
               LET script == context.settings[1].scripts[point][n] IN
               (/\ SeoHandles(script, point)
                /\ Finds(head, body, MarkerOf(point), script.key))
               => Finds(head', body', MarkerOf(point), script.key) ]_vars

----------------------------------------------------------------------------
(* The mechanism that places a custom script, checked under SpecHelmet.    *)

\* A document without nodes of the consumers.
EmptyDocument == [head |-> <<>>, body |-> <<>>, fbq |-> FALSE, made |-> <<>>]

\* The effects of SEOInjector create a node for the script at the point.
PlacedByDom(script, point) ==
  InjectOne(EmptyDocument, script, point, "S1") # EmptyDocument

\* The rendered Helmet children hold a tag for the script.
PlacedByHelmet(script) ==
  \E j \in 1..Len(rendered[1]) :
    /\ rendered[1][j].name \in {"script", "stylesheet", "ld+json"}
    /\ rendered[1][j].content = script.id

\* C28: every custom script with a non-empty value of a loaded bundle,
\* whatever its kind and injection point, is placed by exactly one of the
\* two mechanisms, the Helmet children or the DOM effects: never by both
\* and never by neither.
C28_ExactlyOneMechanism ==
  (rendered # None /\ ~isLoading /\ settings # None)
    => \A point \in InjectionPoints :
         \A n \in 1..Len(settings[1].scripts[point]) :
           LET script == settings[1].scripts[point][n] IN
           script.value # <<>>
             => (PlacedByHelmet(script) <=> ~PlacedByDom(script, point))

----------------------------------------------------------------------------
(* Order of the injected nodes, checked under SpecDom.                     *)

\* The child list that holds the nodes of the given injection point.
ParentOf(h, b, point) == IF point \in {"head_start", "head_end"} THEN h ELSE b

\* The position of the first node in seq that carries the marker and key.
PositionOf(seq, attr, key) ==
  CHOOSE j \in 1..Len(seq) :
    /\ seq[j].attr = attr /\ seq[j].key = key
    /\ \A q \in 1..(j - 1) : ~(seq[q].attr = attr /\ seq[q].key = key)

\* C29: when several custom scripts share an injection point, the nodes
\* injected for them stand in the document in the relative order of the
\* bundle's sequence for that point, for body_start as well as body_end.
C29_DocumentOrder ==
  (~context.isLoading /\ context.settings # None)
    => \A point \in InjectionPoints :
         LET scripts == context.settings[1].scripts[point]
             parent == ParentOf(head, body, point)
             attr == MarkerOf(point)
         IN \A m, n \in 1..Len(scripts) :
              (/\ m < n
               /\ Finds(parent, <<>>, attr, scripts[m].key)
               /\ Finds(parent, <<>>, attr, scripts[n].key))
              => PositionOf(parent, attr, scripts[m].key)
                   < PositionOf(parent, attr, scripts[n].key)

----------------------------------------------------------------------------
(* What an unmount leaves alone, checked under SpecDom.                    *)

\* new is old without some of the nodes that instance i created.
OnlyOwnNodesRemoved(old, new, i) ==
  new = SelectSeq(old, LAMBDA n : n.by # i \/ n \in Range(new))

\* C30: the unmount of an injection consumer changes only DOM nodes that the
\* consumer created; the cache slot, the pending slot, the queries and loads
\* in flight and the provider's visible bundle stay as they are.
C30_UnmountFrame ==
  [][ \A i \in Instances :
        IsUnmountOf(i)
          => /\ OnlyOwnNodesRemoved(head, head', i)
             /\ OnlyOwnNodesRemoved(body, body', i)
             /\ \A j \in Instances \ {i} : consumers'[j] = consumers[j]
             /\ settingsCache' = settingsCache
             /\ pendingRequest' = pendingRequest
             /\ requests' = requests
             /\ continuations' = continuations
             /\ settings' = settings /\ isLoading' = isLoading
             /\ context' = context ]_vars

\* Witness of C30: the provider's only load has ended, S1 and A1 were
\* mounted on its bundle and S1 has been unmounted since; S1's elements are
\* gone, A1's script is in place and the bundle is still visible.
C30_Witness ==
  /\ domSteps = 3 /\ continuations = <<>> /\ pendingRequest = None /\ ~context.isLoading
  /\ context.settings = Some(parseSettingsFromData(RowsDomFull))
  /\ ~consumers["S1"].mounted /\ consumers["A1"].mounted
  /\ \E n \in Range(head) : n.by = "S1" /\ n.tag = "text"
  /\ \A n \in Range(head) \cup Range(body) : n.by = "S1" => n.tag = "text"
  /\ \E n \in Range(head) : n.by = "A1" /\ n.key = "gtm-init"
  /\ Len(consumers["A1"].tracked) = 2

----------------------------------------------------------------------------
(* Failure paths of the build-time script, checked under SpecBuild.        *)

\* The .env file that loadEnv read could not be read.
EnvReadError == ChosenEnvFile(build).exists /\ ~ChosenEnvFile(build).readable

\* After loadEnv one of the two credentials is missing or empty.
MissingCredentials ==
  /\ ~EnvReadError
  /\ ~TruthyStr(build.env.url) \/ ~TruthyStr(build.env.key)

\* The rows of the answer ([] for an answer without data).
AnsweredRows ==
  IF build.resp = None \/ build.resp[1].data = None THEN <<>>
  ELSE build.resp[1].data[1]

\* The query was answered with an error or raised an exception.
QueryFailed == build.resp # None /\ build.resp[1].kind \in {"error", "throw"}

\* The query was answered with rows of which a stored value is not valid JSON.
MalformedJson ==
  build.resp # None /\ build.resp[1].kind = "data" /\ BuildParseThrows(AnsweredRows)

\* The query was answered and index.html could not be read.
IndexReadError == build.resp # None /\ build.index = "unreadable"

\* The query was answered with rows and without an error.
QuerySucceeded == build.resp # None /\ build.resp[1].kind = "data"

\* A row of the answer gave the group of the key a value that parsed.
GroupParsed(key) ==
  \E i \in 1..Len(AnsweredRows) :
    Assigns(AnsweredRows[i], key) /\ JSONParse(AnsweredRows[i].value[1]).ok

\* The run has ended with the given status and index.html as shipped.
EndedUnwritten(status) ==
  /\ build.exit = Some(status) /\ ~build.written
  /\ build.html = Shell(build.shell)

\* C31 as stated: every failure path (missing credentials, query error,
\* malformed stored JSON, file read error) ends the process with status 0
\* and without writing index.html, and index.html is rewritten only after
\* both setting groups were fetched and parsed successfully.  The file read
\* is the one of index.html (inject-seo.js:86), the only one from the
\* credentials check on.
C31_BuildFailurePaths_Original ==
  build.pc = "done" =>
    /\ (MissingCredentials \/ QueryFailed \/ MalformedJson \/ IndexReadError)
         => EndedUnwritten(0)
    /\ build.written
         => GroupParsed("settings_seo") /\ GroupParsed("settings_general")

\* C31 amended: credentials found missing after loadEnv has returned, a
\* query error, malformed stored JSON and a read error of index.html each
\* end the process with status 0 and index.html as shipped, and index.html
\* is rewritten only after the query succeeded and every non-empty stored
\* value among its rows parsed; neither group has to be among the rows.
C31_BuildFailurePaths ==
  build.pc = "done" =>
    /\ (MissingCredentials \/ QueryFailed \/ MalformedJson \/ IndexReadError)
         => EndedUnwritten(0)
    /\ build.written => QuerySucceeded /\ ~MalformedJson

\* Witness of C31: the query returned the general group only, and index.html
\* was rewritten: the title element holds the default title.
C31_Witness ==
  /\ build.pc = "done" /\ build.written /\ build.exit = Some(0)
  /\ GroupParsed("settings_general") /\ ~GroupParsed("settings_seo")
  /\ build.shell = "plain"
  /\ SubSeq(build.html, 1, 5) = << "<title", Gt, "Supermal Karawaci", "</title", Gt >>

============================================================================
